---- MODULE Spec2Model ----
(***************************************************************************)
(* A model of the arenavec bump allocator (src/src/common.rs), of the      *)
(* reference-counted arena (src/src/rc.rs), of the token-locked arena      *)
(* (src/src/region.rs) and of the SliceVec built on them.                  *)
(*                                                                         *)
(* Addresses and sizes are machine words: every usize operation of the     *)
(* source is taken modulo Word.  A build with overflow checks (debug)      *)
(* panics where the mathematical result leaves the word, a build without   *)
(* them (release) continues with the wrapped value; the variable `release` *)
(* fixes the build for a whole behaviour.                                  *)
(***************************************************************************)
EXTENDS Integers, Sequences, FiniteSets, TLC

VARIABLES
    release,    \* TRUE: overflow checks and debug assertions compiled out
    cap,        \* Inner.cap / Arena.cap: capacity of the backing buffer, in bytes
    pos,        \* Inner.pos / Arena.pos: offset of the next free byte
    outcome,    \* how the last operation ended: "ok", "panic", or an error value
    last,       \* the last operation: its name, the cursor before it, what it returned
    blocks,     \* blocks issued by direct allocate / allocate_or_extend calls
    strong,     \* Rc::strong_count(&inner): the owner plus every live InnerRef clone
    handles,    \* InnerRef clones held by the caller outside any sequence
    vecs,       \* the SliceVec values of the caller, by slot: ptr, len, capacity
    refs,       \* the reference dynamic array (std Vec) driven in lock-step, by slot
    mem,        \* memory: address -> the element stored there
    drops,      \* element id -> how often its destructor has run
    stored,     \* ids of the elements ever written into a SliceVec
    nextId,     \* the next unused element id
    ops,        \* how many operations the caller has applied to its vectors
    locked,     \* region Arena.locked: a generation token has been handed out
    tokens,     \* the live ArenaToken values of the region arena
    seqs,       \* the live sequences allocated through a token of the region arena
    arena       \* the Arena value: its module, its ArenaBacking, and the releases of its buffer

cursorVars == <<blocks>>
vecVars == <<strong, handles, vecs, refs, mem, drops, stored, nextId, ops>>
regionVars == <<locked, tokens, seqs>>
vars == <<release, cap, arena, pos, outcome, last, blocks,
          strong, handles, vecs, refs, mem, drops, stored, nextId, ops,
          locked, tokens, seqs, arena>>

----------------------------------------------------------------------------
(* Machine words and the bounds of the model *)

\* usize::MAX + 1 of a 16-bit target
Word == 65536

\* base address of the backing buffer (mmap / alloc with page alignment)
HeadAddr == 4096

\* the allocator's padding quantum, the literal 64 of allocate_inner
Quantum == 64

\* capacity of the arena driven by raw allocator calls
CursorCap == 256

\* how many blocks the raw allocator calls may issue in one generation
MaxBlocks == 3

\* largest ordinary element count of a raw request
MaxCount == 2

\* an element count whose byte size leaves the machine word for 8-byte elements
HugeCount == (Word \div 8) + 1

\* element layouts (Layout::new::<T>()): size and alignment in bytes
Layouts == { [size |-> 8, align |-> 8],
             [size |-> 1, align |-> 1],
             [size |-> 64, align |-> 64] }

Counts == (0..MaxCount) \cup {HugeCount}

NullPtr == 0

\* slots for the SliceVec values of the caller
NumVecs == 2

\* how many elements are created over a run
MaxIds == 10

\* ArenaBacking: the kind of backing store asked for
MemoryMap == 1
SystemAllocation == 2

\* Arena::init_capacity(backing, ..) of rc.rs ("rc") or of region.rs
\* ("region"): the arena owns its buffer, which no call has released yet
Built(kind, backing) ==
    [kind |-> kind, backing |-> backing, live |-> TRUE, unmapped |-> 0, dealloced |-> 0]

\* before Arena::init_capacity there is no arena
NoArena ==
    [kind |-> "none", backing |-> MemoryMap, live |-> FALSE, unmapped |-> 0, dealloced |-> 0]

----------------------------------------------------------------------------
(* common.rs: the bump cursor *)

\* allocate_inner without the skip to the next boundary: the block starts at the
\* cursor
allocate_inner_unaligned(p, c, size, align, count, rel) ==
    LET prodM   == size * count
        prodW   == prodM % Word
        sumM    == p + prodW
        sumW    == sumM % Word
        ovf     == prodM >= Word \/ sumM >= Word
        ret     == (HeadAddr + p) % Word
    IN  IF ~rel /\ ovf
          THEN [status |-> "panic", pos |-> p, ret |-> NullPtr, skip |-> 0]
        ELSE IF ~(sumW <= c)
          THEN [status |-> "panic", pos |-> p, ret |-> NullPtr, skip |-> 0]
        ELSE IF ~(ret >= HeadAddr) \/ ~(ret < HeadAddr + c)
          THEN [status |-> "panic", pos |-> sumW, ret |-> NullPtr, skip |-> 0]
        ELSE [status |-> "ok", pos |-> sumW, ret |-> ret, skip |-> 0]

\* an allocate_inner that pads only up to the next multiple of the alignment
allocate_inner_tight(p, c, size, align, count, rel) ==
    LET skip    == (align - (p % align)) % align
        prodM   == size * count
        prodW   == prodM % Word
        addM    == skip + prodW
        addW    == addM % Word
        sumM    == p + addW
        sumW    == sumM % Word
        ovf     == prodM >= Word \/ addM >= Word \/ sumM >= Word
        ret     == (HeadAddr + ((p + skip) % Word)) % Word
    IN  IF ~rel /\ ovf
          THEN [status |-> "panic", pos |-> p, ret |-> NullPtr, skip |-> skip]
        ELSE IF ~(sumW <= c)
          THEN [status |-> "panic", pos |-> p, ret |-> NullPtr, skip |-> skip]
        ELSE IF ~(ret >= HeadAddr) \/ ~(ret < HeadAddr + c)
          THEN [status |-> "panic", pos |-> sumW, ret |-> NullPtr, skip |-> skip]
        ELSE [status |-> "ok", pos |-> sumW, ret |-> ret, skip |-> skip]

\* allocate_inner: the new cursor position and the returned address, or a panic.
\* A panic of the two trailing assertions happens after position.set.
allocate_inner(p, c, size, align, count, rel) ==
    LET low     == p % align                       \* pos & mask, align a power of two
        skipM   == Quantum - low                   \* 64 - (pos & mask)
        skipW   == (skipM + Word) % Word
        skip    == IF skipW = align THEN 0 ELSE skipW
        prodM   == size * count
        prodW   == prodM % Word
        addM    == skip + prodW
        addW    == addM % Word                     \* additional
        sumM    == p + addW
        sumW    == sumM % Word                     \* pos + additional
        ovf     == skipM < 0 \/ prodM >= Word \/ addM >= Word \/ sumM >= Word
        ret     == (HeadAddr + ((p + skip) % Word)) % Word
    IN  IF ~rel /\ ovf
          THEN [status |-> "panic", pos |-> p, ret |-> NullPtr, skip |-> skip]
        ELSE IF ~(sumW <= c)
          THEN [status |-> "panic", pos |-> p, ret |-> NullPtr, skip |-> skip]
        ELSE IF ~(ret >= HeadAddr) \/ ~(ret < HeadAddr + c)
          THEN [status |-> "panic", pos |-> sumW, ret |-> NullPtr, skip |-> skip]
        ELSE [status |-> "ok", pos |-> sumW, ret |-> ret, skip |-> skip]

\* allocate_or_extend_inner: grow the block in place when it ends at the cursor,
\* otherwise allocate afresh.
allocate_or_extend_inner(p, c, ptr, old_count, count, size, align, rel) ==
    LET next   == (HeadAddr + p) % Word
        end    == (ptr + old_count * size) % Word
        diffM  == count - old_count
        diffW  == (diffM + Word) % Word
        bytesM == diffW * size
        bytesW == bytesM % Word
        sumM   == p + bytesW
        sumW   == sumM % Word
        ovf    == diffM < 0 \/ bytesM >= Word \/ sumM >= Word
    IN  IF next = end
          THEN IF ~rel /\ ovf
                 THEN [status |-> "panic", pos |-> p, ret |-> NullPtr, skip |-> 0]
                 ELSE [status |-> "ok", pos |-> sumW, ret |-> ptr, skip |-> 0]
          ELSE allocate_inner(p, c, size, align, count, rel)

----------------------------------------------------------------------------
(* Raw allocator calls on one arena *)

Running == outcome # "panic"

\* what the last operation was: its name and, where a property reads them, the
\* cursor before it, the pointer it returned, whether that pointer is a fresh
\* block, the slot or token it acted on and its argument
LastOp(op, before, ret, fresh, v, arg) ==
    [op |-> op, before |-> before, ret |-> ret, fresh |-> fresh, v |-> v, arg |-> arg]

NoVec == [live |-> FALSE, ptr |-> NullPtr, len |-> 0, capacity |-> 0]

\* no sequence exists: only the owner references the arena
InitNoVecs ==
    /\ strong = 1
    /\ handles = 0
    /\ vecs = [v \in 1..NumVecs |-> NoVec]
    /\ refs = [v \in 1..NumVecs |-> <<>>]
    /\ mem = <<>>
    /\ drops = [i \in 1..MaxIds |-> 0]
    /\ stored = {}
    /\ nextId = 1
    /\ ops = 0

\* the region arena is not in use: unlocked, no token, no sequence
InitNoRegion ==
    /\ locked = FALSE
    /\ tokens = {}
    /\ seqs = <<>>

InitCursor ==
    /\ release \in BOOLEAN
    /\ arena = Built("rc", MemoryMap)
    /\ cap = CursorCap
    /\ pos = 0
    /\ outcome = "ok"
    /\ last = LastOp("init", 0, NullPtr, FALSE, 0, 0)
    /\ blocks = <<>>
    /\ InitNoVecs
    /\ InitNoRegion

\* handle.allocate::<T>(count)
Allocate(ly, count) ==
    /\ Running
    /\ Len(blocks) < MaxBlocks
    /\ \E r \in { allocate_inner(pos, cap, ly.size, ly.align, count, release) } :
           /\ pos' = r.pos
           /\ outcome' = r.status
           /\ last' = LastOp("allocate", pos, r.ret, r.status = "ok", 0, count)
           /\ blocks' = IF r.status = "ok"
                          THEN Append(blocks, [ptr |-> r.ret, size |-> ly.size,
                                               align |-> ly.align, count |-> count])
                          ELSE blocks
    /\ UNCHANGED <<regionVars, release, cap, arena, vecVars>>

\* handle.allocate_or_extend::<T>(ptr, old_count, count) on an issued block
AllocateOrExtend(i, count) ==
    /\ Running
    /\ i \in 1..Len(blocks)
    /\ count > blocks[i].count
    /\ \E b \in { blocks[i] } :
       \E r \in { allocate_or_extend_inner(pos, cap, b.ptr, b.count, count,
                                            b.size, b.align, release) } :
       \E inplace \in { r.status = "ok" /\ r.ret = b.ptr } :
           /\ inplace \/ Len(blocks) < MaxBlocks
           /\ pos' = r.pos
           /\ outcome' = r.status
           /\ last' = LastOp("extend", pos, r.ret, r.status = "ok" /\ ~inplace, i, count)
           /\ blocks' = IF r.status # "ok" THEN blocks
                        ELSE IF inplace THEN [blocks EXCEPT ![i].count = count]
                        ELSE Append(blocks, [ptr |-> r.ret, size |-> b.size,
                                             align |-> b.align, count |-> count])
    /\ UNCHANGED <<regionVars, release, cap, arena, vecVars>>

\* the cursor is rewound: a new generation begins and no block is issued in it yet
Reset ==
    /\ Running
    /\ pos' = 0
    /\ outcome' = "ok"
    /\ last' = LastOp("reset", pos, NullPtr, FALSE, 0, 0)
    /\ blocks' = <<>>
    /\ UNCHANGED <<regionVars, release, cap, arena, vecVars>>

NextCursor ==
    \/ \E ly \in Layouts, n \in Counts : Allocate(ly, n)
    \/ \E i \in 1..MaxBlocks, n \in Counts \cup {4} : AllocateOrExtend(i, n)
    \/ Reset

SpecCursor == InitCursor /\ [][NextCursor]_vars

----------------------------------------------------------------------------
(* Claims on the bump cursor *)

\* the bytes of a block as the caller owns them: [ptr, ptr + size*count)
BlockEnd(b) == b.ptr + b.size * b.count

Overlap(a, b) ==
    /\ a.size * a.count > 0
    /\ b.size * b.count > 0
    /\ a.ptr < BlockEnd(b)
    /\ b.ptr < BlockEnd(a)

\* C1: within one generation no freshly allocated block overlaps a block issued
\* earlier in that generation (a block grown in place stays the same block).
C1_NoAlias ==
    \A i \in 1..Len(blocks), j \in 1..Len(blocks) :
        i < j => ~Overlap(blocks[i], blocks[j])

\* C2: the cursor stays inside the buffer: 0 <= position <= capacity.
C2_PositionWithinCapacity == 0 <= pos /\ pos <= cap

\* the block ends where the cursor stands: nothing was allocated after it
MostRecent(b, p) == b.ptr + b.size * b.count = HeadAddr + p

\* C12: allocate_or_extend on the most recently issued block returns the
\* block's own pointer and advances the position by exactly
\* (new_count - old_count) * size.
C12_ExtendInPlace ==
    [][ (last'.op = "extend" /\ MostRecent(blocks[last'.v], pos))
            => /\ outcome' = "ok"
               /\ last'.ret = blocks[last'.v].ptr
               /\ pos' = pos + (last'.arg - blocks[last'.v].count)
                                   * blocks[last'.v].size ]_vars

\* a block was issued after block i: an allocation was interposed
Interposed(i) == i < Len(blocks)

\* C13: an extend that returns gives the block's own pointer exactly when no
\* allocation, of any type and any count, was made since the block was issued.
C13_InterposedForcesCopy ==
    [][ (last'.op = "extend" /\ outcome' = "ok")
            => (last'.ret = blocks[last'.v].ptr <=> ~Interposed(last'.v)) ]_vars

\* the request does not fit: position + skip + size * count > capacity
Overflows(ly, count) ==
    pos + allocate_inner(pos, cap, ly.size, ly.align, count, release).skip
        + ly.size * count > cap

\* C14: an allocate whose position + skip + size * count exceeds the capacity
\* ends in the fatal assertion, returns no pointer and leaves the position
\* unchanged.
C14_OverflowIsFatal ==
    [][ \A ly \in Layouts, count \in Counts :
            (Allocate(ly, count) /\ Overflows(ly, count))
                => /\ outcome' = "panic"
                   /\ last'.ret = NullPtr
                   /\ pos' = pos ]_vars

\* C33: every allocate request with position + skip + size * count <= capacity
\* succeeds and returns a pointer without tripping an assertion, a zero-byte
\* request whose start offset position + skip equals the capacity included;
\* and whenever allocate panics, the position is unchanged.
C33_FittingAllocateSucceeds ==
    [][ /\ \A ly \in Layouts, count \in Counts :
               (Allocate(ly, count) /\ ~Overflows(ly, count))
                   => (outcome' = "ok" /\ last'.ret # NullPtr)
        /\ (last'.op = "allocate" /\ outcome' = "panic") => pos' = pos ]_vars

\* the growth of block i to count elements does not fit: in place it needs
\* (count - old_count) * size bytes at the cursor, moved it is a fresh request
ExtendOverflows(i, count) ==
    IF MostRecent(blocks[i], pos)
      THEN pos + (count - blocks[i].count) * blocks[i].size > cap
      ELSE Overflows([size |-> blocks[i].size, align |-> blocks[i].align], count)

\* C34: every request whose true byte requirement exceeds capacity - position
\* ends in the fatal overflow, also when size * count or position + additional
\* leaves the machine word and wraps: no wrapped sum is accepted as fitting.
C34_NoWrappedSumAccepted ==
    [][ /\ \A ly \in Layouts, count \in Counts :
               (last'.op = "allocate" /\ Overflows(ly, count) /\ Allocate(ly, count))
                   => outcome' = "panic"
        /\ \A i \in 1..MaxBlocks, count \in Counts :
               (last'.op = "extend" /\ i \in 1..Len(blocks) /\ AllocateOrExtend(i, count)
                    /\ ExtendOverflows(i, count))
                   => outcome' = "panic" ]_vars

\* C27: within one generation every allocation call (allocate or
\* allocate_or_extend) observes a cursor position strictly greater than the
\* position the previous allocation call on the arena observed, and the
\* position returns to 0 only at a reset.
C27_CursorStrictlyIncreases ==
    [][ /\ (/\ last.op \in {"allocate", "extend"}
            /\ last'.op \in {"allocate", "extend"})
               => last'.before > last.before
        /\ (pos' = 0 /\ pos # 0) => last'.op = "reset" ]_vars

----------------------------------------------------------------------------
(* allocate_inner at every cursor position, for every alignment up to 64 *)

\* the alignments of the element types: the powers of two up to the boundary
Aligns == { 1, 2, 4, 8, 16, 32, Quantum }

\* the cursor of an arena in use: 0, or past the first boundary; a build
\* without overflow checks reaches the positions below it by a wrapped extension
InitAlign ==
    /\ release \in BOOLEAN
    /\ arena = Built("rc", MemoryMap)
    /\ cap = CursorCap
    /\ pos \in 0..CursorCap
    /\ release \/ pos = 0 \/ pos >= Quantum
    /\ outcome = "ok"
    /\ last = LastOp("init", 0, NullPtr, FALSE, 0, 0)
    /\ blocks = <<>>
    /\ InitNoVecs
    /\ InitNoRegion

\* handle.allocate::<T>(count) for a T of the given alignment (size_of::<T>() is
\* align_of::<T>() for the integer types)
AllocateAt(align, count) ==
    /\ Running
    /\ \E r \in { allocate_inner(pos, cap, align, align, count, release) } :
           /\ pos' = r.pos
           /\ outcome' = r.status
           /\ last' = LastOp("allocate_at", pos, r.ret, r.status = "ok", align, count)
    /\ UNCHANGED <<regionVars, release, cap, arena, blocks, vecVars>>

NextAlign == \E align \in Aligns, count \in 0..MaxCount : AllocateAt(align, count)

SpecAlign == InitAlign /\ [][NextAlign]_vars

\* C15: the offset position_before + skip of the pointer that allocate returns
\* is a multiple of the alignment, for every position and every power-of-two
\* alignment up to 64.
C15_ReturnedOffsetAligned ==
    (last.op = "allocate_at" /\ outcome = "ok")
        => (last.ret - HeadAddr) % last.v = 0

\* a pointer was returned from a cursor that was not a multiple of the alignment
C15_Witness ==
    /\ last.op = "allocate_at"
    /\ outcome = "ok"
    /\ last.v = 32
    /\ last.before % last.v # 0
    /\ last.ret = HeadAddr + last.before + (Quantum - (last.before % last.v))

\* C36: for every position and every power-of-two alignment up to 64 the
\* padding of allocate is 0 exactly when the alignment is 64 and the position a
\* multiple of 64; in every other case it is 64 - (position mod align) >= 1, so
\* an allocation of a smaller alignment at an aligned position still consumes
\* 64 bytes of padding.
C36_SkipZeroOnlyAtBoundary ==
    (last.op = "allocate_at" /\ outcome = "ok")
        => /\ (last.ret - HeadAddr - last.before = 0)
                  <=> (last.v = Quantum /\ last.before % Quantum = 0)
           /\ (last.ret - HeadAddr - last.before # 0)
                  => /\ last.ret - HeadAddr - last.before
                            = Quantum - (last.before % last.v)
                     /\ last.ret - HeadAddr - last.before >= 1

\* an allocation of alignment 8 at a position that is a multiple of 8 was
\* placed 64 bytes behind the cursor
C36_Witness ==
    /\ last.op = "allocate_at"
    /\ outcome = "ok"
    /\ last.v = 8
    /\ last.before = Quantum + 8
    /\ last.ret = HeadAddr + last.before + Quantum

\* the alignments of C15 and the first power of two above the boundary
WideAligns == Aligns \cup {2 * Quantum}

NextAlignWide == \E align \in WideAligns, count \in 0..MaxCount : AllocateAt(align, count)

SpecAlignWide == InitAlign /\ [][NextAlignWide]_vars

\* C35: for every position and every power-of-two alignment, those above 64
\* included, the unsigned subtraction 64 - (position & (align - 1)) of allocate
\* does not underflow: the padding is a value in [0, 64] and no call ends in
\* the panic of the subtraction.
C35_SkipNeverUnderflows ==
    [][ last'.op = "allocate_at"
            => /\ Quantum - (pos % last'.v) >= 0
               /\ allocate_inner(pos, cap, last'.v, last'.v, last'.arg, release).skip
                      \in 0..Quantum ]_vars

----------------------------------------------------------------------------
(* common.rs: SliceVec over the shared-ownership arena of rc.rs *)

\* size_of::<T>() and align_of::<T>() of the element type of the tests (usize, Rc<()>)
ElemSize == 8
ElemAlign == 8

\* NonNull::dangling(): the alignment of T taken as an address
Dangling == ElemAlign

\* capacity of the arena that holds the vectors
VecArenaCap == 224

\* the arguments tried for with_capacity and for reserve
Capacities == {1, 4}
Additionals == {0, 1, 5, 12, (Word \div 2) + 1, Word - 1}

\* largest length or index argument (resize, truncate, swap_remove, split_off)
MaxArg == 2

\* most items of an extend_from_slice
MaxSlice == 2

\* InnerRef clones the caller may hold outside any sequence
MaxHandles == 1

\* how many operations the caller applies to its vectors
MaxOps == 5

Uninit == [id |-> 0, val |-> 0]

\* ptr.add(i)
Slot(ptr, i) == ptr + i * ElemSize

MemAt(m, a) == IF a \in DOMAIN m THEN m[a] ELSE Uninit

\* ptr::write(a, e)
Write(m, a, e) == [x \in DOMAIN m \cup {a} |-> IF x = a THEN e ELSE m[x]]

\* ptr::copy_nonoverlapping(src, dst, n)
Copy(m, src, dst, n) ==
    LET target == { Slot(dst, i) : i \in 0..(n - 1) }
    IN  [x \in DOMAIN m \cup target |->
            IF x \in target THEN MemAt(m, src + (x - dst)) ELSE m[x]]

\* a drop_in_place that runs no destructor
DropRangeForgets(d, m, ptr, from, to) == d

\* ptr::drop_in_place(&mut slice[from..to]): the destructor of each element runs
DropRange(d, m, ptr, from, to) ==
    [id \in DOMAIN d |->
        d[id] + Cardinality({ i \in from..(to - 1) : MemAt(m, Slot(ptr, i)).id = id })]

\* a value handed back to the caller is destructed by the caller
DropValue(d, e) == [id \in DOMAIN d |-> IF id = e.id THEN d[id] + 1 ELSE d[id]]

\* Deref for SliceVec: the elements [0, len) as the caller reads them
Elements(vec, m) == [i \in 1..vec.len |-> MemAt(m, Slot(vec.ptr, i - 1))]
Values(vec, m) == [i \in 1..vec.len |-> MemAt(m, Slot(vec.ptr, i - 1)).val]

\* the loop `while new_capacity < size { new_capacity *= 2 }` of reserve: the
\* capacity it ends with, a panic of the checked multiplication, or, once the
\* wrapped product is 0, a loop that never ends
RECURSIVE new_capacity(_, _, _)
new_capacity(nc, size, rel) ==
    IF nc >= size THEN [status |-> "ok", capacity |-> nc]
    ELSE IF 2 * nc >= Word /\ ~rel THEN [status |-> "panic", capacity |-> nc]
    ELSE IF (2 * nc) % Word = 0 THEN [status |-> "hang", capacity |-> 0]
    ELSE new_capacity((2 * nc) % Word, size, rel)

\* the result of a vector operation that left the vector as it was
Kept(status, vec, p, m) == [status |-> status, vec |-> vec, pos |-> p, mem |-> m]

\* a reserve that copies one element too few to the block it moves to
reserve_move_short(vec, nc, r, m) ==
    IF r.status # "ok"
      THEN Kept("panic", vec, r.pos, m)
      ELSE [status |-> "ok",
            vec |-> [vec EXCEPT !.ptr = r.ret, !.capacity = nc],
            pos |-> r.pos,
            mem |-> IF r.ret # vec.ptr /\ vec.len > 0
                      THEN Copy(m, vec.ptr, r.ret, vec.len - 1) ELSE m]

\* SliceVec::reserve, after allocate_or_extend returned r: copy if the block moved
reserve_move(vec, nc, r, m) ==
    IF r.status # "ok"
      THEN Kept("panic", vec, r.pos, m)
      ELSE [status |-> "ok",
            vec |-> [vec EXCEPT !.ptr = r.ret, !.capacity = nc],
            pos |-> r.pos,
            mem |-> IF r.ret # vec.ptr THEN Copy(m, vec.ptr, r.ret, vec.len) ELSE m]

\* SliceVec::reserve, once the new capacity nc is computed
reserve_grow(vec, nc, p, c, m, rel) ==
    IF nc.status # "ok" THEN Kept(nc.status, vec, p, m)
    ELSE reserve_move(vec, nc.capacity,
                      allocate_or_extend_inner(p, c, vec.ptr, vec.capacity, nc.capacity,
                                               ElemSize, ElemAlign, rel),
                      m)

\* SliceVec::reserve
reserve(vec, additional, p, c, m, rel) ==
    IF ~rel /\ vec.len + additional >= Word THEN Kept("panic", vec, p, m)
    ELSE IF vec.capacity >= (vec.len + additional) % Word THEN Kept("ok", vec, p, m)
    ELSE reserve_grow(vec,
                      new_capacity(IF vec.capacity > 0 THEN vec.capacity ELSE 4,
                                   (vec.len + additional) % Word, rel),
                      p, c, m, rel)

\* SliceVec::push writing the element to the first slot instead of the slot at
\* the length
push_write_first(r, e) ==
    IF r.status # "ok" THEN r
    ELSE [status |-> "ok",
          vec |-> [r.vec EXCEPT !.len = @ + 1],
          pos |-> r.pos,
          mem |-> Write(r.mem, Slot(r.vec.ptr, 0), e)]

\* SliceVec::push, after the reserve r: write the element, count it
push_write(r, e) ==
    IF r.status # "ok" THEN r
    ELSE [status |-> "ok",
          vec |-> [r.vec EXCEPT !.len = @ + 1],
          pos |-> r.pos,
          mem |-> Write(r.mem, Slot(r.vec.ptr, r.vec.len), e)]

\* SliceVec::push without the reserve of a full vector
push_unreserved(vec, e, p, c, m, rel) == push_write(Kept("ok", vec, p, m), e)

\* SliceVec::push
push(vec, e, p, c, m, rel) ==
    IF vec.len # vec.capacity THEN push_write(Kept("ok", vec, p, m), e)
    ELSE IF vec.capacity = 0 THEN push_write(reserve(vec, 4, p, c, m, rel), e)
    ELSE IF ~rel /\ vec.capacity * 2 >= Word THEN Kept("panic", vec, p, m)
    ELSE push_write(reserve(vec, (((vec.capacity * 2) % Word) - vec.capacity + Word) % Word,
                            p, c, m, rel), e)

\* Slice::new_empty, after allocate returned r
new_empty(real_len, r) ==
    IF r.status # "ok"
      THEN [status |-> "panic", pos |-> r.pos, vec |-> NoVec]
      ELSE [status |-> "ok", pos |-> r.pos,
            vec |-> [live |-> TRUE, ptr |-> r.ret, len |-> 0, capacity |-> real_len]]

\* SliceVec::with_capacity
with_capacity(capacity, p, c, rel) ==
    IF capacity = 0
      THEN [status |-> "ok", pos |-> p,
            vec |-> [live |-> TRUE, ptr |-> Dangling, len |-> 0, capacity |-> 0]]
      ELSE new_empty(capacity, allocate_inner(p, c, ElemSize, ElemAlign, capacity, rel))

----------------------------------------------------------------------------
(* The caller: vectors created, used and dropped on one rc arena, and the    *)
(* reference dynamic array that receives the same operations.                *)

Halted == outcome \in {"panic", "hang", "fault"}

\* the elements [0, n) of the vector reach past the end of the buffer
PastBuffer(vec, n) == n > 0 /\ Slot(vec.ptr, n) > HeadAddr + cap

\* An access to bytes past the buffer is undefined: it lands in the slack of the
\* mapping's last page, or the process dies of a fault.
Access(status, touched) ==
    IF status = "ok" /\ touched THEN {"ok", "fault"} ELSE {status}

Max(a, b) == IF a > b THEN a ELSE b

Live(v) == vecs[v].live

\* the caller applies one more operation
Step ==
    /\ ~Halted
    /\ ops < MaxOps
    /\ ops' = ops + 1

InitVec ==
    /\ release \in BOOLEAN
    /\ arena = Built("rc", MemoryMap)
    /\ cap = VecArenaCap
    /\ pos = 0
    /\ outcome = "ok"
    /\ last = LastOp("init", 0, NullPtr, FALSE, 0, 0)
    /\ blocks = <<>>
    /\ InitNoVecs
    /\ InitNoRegion

\* a new element: its id, and the value the reference array sees
Elem(id, val) == [id |-> id, val |-> val]

\* SliceVec::with_capacity(arena.inner(), capacity)
WithCapacity(v, capacity) ==
    /\ Step
    /\ ~Live(v)
    /\ \E r \in { with_capacity(capacity, pos, cap, release) } :
           /\ pos' = r.pos
           /\ outcome' = r.status
           /\ last' = LastOp("with_capacity", 0, NullPtr, FALSE, 0, 0)
           /\ vecs' = [vecs EXCEPT ![v] = r.vec]
           /\ strong' = IF r.status = "ok" THEN strong + 1 ELSE strong
    /\ UNCHANGED <<regionVars, release, cap, arena, blocks, handles, refs, mem, drops, stored, nextId>>

\* SliceVec::new(arena.inner())
New(v) == WithCapacity(v, 0)

\* vec.reserve(additional)
Reserve(v, additional) ==
    /\ Step
    /\ Live(v)
    /\ \E r \in { reserve(vecs[v], additional, pos, cap, mem, release) } :
           /\ pos' = r.pos
           /\ outcome' \in Access(r.status, r.vec.ptr # vecs[v].ptr
                                               /\ PastBuffer(vecs[v], vecs[v].len))
           /\ last' = LastOp("reserve", 0, NullPtr, FALSE, 0, 0)
           /\ vecs' = [vecs EXCEPT ![v] = r.vec]
           /\ mem' = r.mem
    /\ UNCHANGED <<regionVars, release, cap, arena, blocks, strong, handles, refs, drops, stored, nextId>>

\* the first n elements of the reference array (Vec::truncate)
Take(s, n) == IF n < Len(s) THEN SubSeq(s, 1, n) ELSE s

\* a truncate that hands the bytes of the elements it destructs back to the arena
TruncateGivesBack(v, len) ==
    /\ Step
    /\ Live(v)
    /\ LET vec == vecs[v]
       IN  /\ vecs' = [vecs EXCEPT ![v].len = IF len < vec.len THEN len ELSE vec.len]
           /\ drops' = IF len < vec.len
                         THEN DropRange(drops, mem, vec.ptr, len, vec.len)
                         ELSE drops
           /\ pos' = IF len < vec.len THEN pos - (vec.len - len) * ElemSize ELSE pos
           /\ refs' = [refs EXCEPT ![v] = Take(@, len)]
           /\ last' = LastOp("truncate", 0, NullPtr, FALSE, 0, 0)
           /\ outcome' \in Access("ok", len < vec.len /\ PastBuffer(vec, vec.len))
    /\ UNCHANGED <<regionVars, release, cap, arena, blocks, strong, handles, mem, stored, nextId>>

\* vec.truncate(len)
Truncate(v, len) ==
    /\ Step
    /\ Live(v)
    /\ LET vec == vecs[v]
       IN  /\ vecs' = [vecs EXCEPT ![v].len = IF len < vec.len THEN len ELSE vec.len]
           /\ drops' = IF len < vec.len
                         THEN DropRange(drops, mem, vec.ptr, len, vec.len)
                         ELSE drops
           /\ refs' = [refs EXCEPT ![v] = Take(@, len)]
           /\ last' = LastOp("truncate", 0, NullPtr, FALSE, 0, 0)
           /\ outcome' \in Access("ok", len < vec.len /\ PastBuffer(vec, vec.len))
    /\ UNCHANGED <<regionVars, release, cap, arena, blocks, pos, strong, handles, mem, stored, nextId>>

\* Vec::swap_remove of the reference array
RefSwapRemove(s, index) ==
    IF index < Len(s)
      THEN [k \in 1..(Len(s) - 1) |-> IF k = index + 1 THEN s[Len(s)] ELSE s[k]]
      ELSE s

\* vec.swap_remove(index) without the ptr::replace: the hole keeps its element
SwapRemoveKeepsHole(v, index) ==
    /\ Step
    /\ Live(v)
    /\ LET vec == vecs[v]
           out == MemAt(mem, Slot(vec.ptr, index))
       IN  IF index >= vec.len
             THEN /\ outcome' = "panic"
                  /\ last' = LastOp("swap_remove", 0, NullPtr, FALSE, 0, 0)
                  /\ UNCHANGED <<vecs, mem, drops, refs>>
             ELSE /\ outcome' \in Access("ok", PastBuffer(vec, vec.len))
                  /\ last' = LastOp("swap_remove", 0, NullPtr, FALSE, 0, 0)
                  /\ vecs' = [vecs EXCEPT ![v].len = vec.len - 1]
                  /\ mem' = mem
                  /\ drops' = DropValue(drops, out)
                  /\ refs' = [refs EXCEPT ![v] = RefSwapRemove(@, index)]
    /\ UNCHANGED <<regionVars, release, cap, arena, blocks, pos, strong, handles, stored, nextId>>

\* vec.swap_remove(index); the caller drops the element it gets back
SwapRemove(v, index) ==
    /\ Step
    /\ Live(v)
    /\ LET vec == vecs[v]
           hole == Slot(vec.ptr, index)
           lastE == MemAt(mem, Slot(vec.ptr, vec.len - 1))
           out == MemAt(mem, hole)
       IN  IF index >= vec.len
             THEN /\ outcome' = "panic"
                  /\ last' = LastOp("swap_remove", 0, NullPtr, FALSE, 0, 0)
                  /\ UNCHANGED <<vecs, mem, drops, refs>>
             ELSE /\ outcome' \in Access("ok", PastBuffer(vec, vec.len))
                  /\ last' = LastOp("swap_remove", 0, NullPtr, FALSE, 0, 0)
                  /\ vecs' = [vecs EXCEPT ![v].len = vec.len - 1]
                  /\ mem' = Write(mem, hole, lastE)
                  /\ drops' = DropValue(drops, out)
                  /\ refs' = [refs EXCEPT ![v] = RefSwapRemove(@, index)]
    /\ UNCHANGED <<regionVars, release, cap, arena, blocks, pos, strong, handles, stored, nextId>>

\* vec.push(elem) with a new element: what the call does to the vector, the
\* arena and the memory
DoPush(v) ==
    /\ Live(v)
    /\ \E e \in { Elem(nextId, nextId) } :
       \E r \in { push(vecs[v], e, pos, cap, mem, release) } :
           /\ pos' = r.pos
           /\ outcome' \in Access(r.status, PastBuffer(r.vec, r.vec.len))
           /\ last' = LastOp("push", 0, NullPtr, FALSE, 0, 0)
           /\ vecs' = [vecs EXCEPT ![v] = r.vec]
           /\ mem' = r.mem
           /\ IF r.status = "ok"
                THEN /\ stored' = stored \cup {e.id}
                     /\ nextId' = nextId + 1
                     /\ refs' = [refs EXCEPT ![v] = Append(@, e.val)]
                ELSE UNCHANGED <<stored, nextId, refs>>
    /\ UNCHANGED <<regionVars, release, cap, arena, blocks, strong, handles, drops>>

\* vec.push(elem) as one of the operations of a run
Push(v) ==
    /\ Step
    /\ nextId <= MaxIds
    /\ DoPush(v)

\* SliceVec::pop: the vector afterwards and the Option<T> returned
pop(vec, m) ==
    IF vec.len = 0
      THEN [vec |-> vec, some |-> FALSE, out |-> Uninit]
      ELSE [vec |-> [vec EXCEPT !.len = @ - 1],
            some |-> TRUE,
            out |-> MemAt(m, Slot(vec.ptr, vec.len - 1))]

\* vec.pop() that runs the destructor of the element it also hands back
PopDestructs(v) ==
    /\ Step
    /\ Live(v)
    /\ LET vec == vecs[v]
           out == MemAt(mem, Slot(vec.ptr, vec.len - 1))
       IN  IF vec.len = 0
             THEN /\ last' = LastOp("pop", 0, NullPtr, FALSE, 0, 0)
                  /\ UNCHANGED <<vecs, drops>>
             ELSE /\ last' = LastOp("pop", 0, NullPtr, FALSE, 0, 0)
                  /\ vecs' = [vecs EXCEPT ![v].len = vec.len - 1]
                  /\ drops' = DropValue(DropValue(drops, out), out)
    /\ refs' = [refs EXCEPT ![v] = IF Len(@) = 0 THEN @ ELSE SubSeq(@, 1, Len(@) - 1)]
    /\ outcome' \in Access("ok", PastBuffer(vecs[v], vecs[v].len))
    /\ UNCHANGED <<regionVars, release, cap, arena, blocks, pos, strong, handles, mem, stored, nextId>>

\* vec.pop(); the caller drops the element it gets back
Pop(v) ==
    /\ Step
    /\ Live(v)
    /\ LET vec == vecs[v]
           out == MemAt(mem, Slot(vec.ptr, vec.len - 1))
       IN  IF vec.len = 0
             THEN /\ last' = LastOp("pop", 0, NullPtr, FALSE, 0, 0)
                  /\ UNCHANGED <<vecs, drops>>
             ELSE /\ last' = LastOp("pop", 0, NullPtr, FALSE, 0, 0)
                  /\ vecs' = [vecs EXCEPT ![v].len = vec.len - 1]
                  /\ drops' = DropValue(drops, out)
    /\ refs' = [refs EXCEPT ![v] = IF Len(@) = 0 THEN @ ELSE SubSeq(@, 1, Len(@) - 1)]
    /\ outcome' \in Access("ok", PastBuffer(vecs[v], vecs[v].len))
    /\ UNCHANGED <<regionVars, release, cap, arena, blocks, pos, strong, handles, mem, stored, nextId>>

\* vec.append(&mut other)
AppendVec(v, w) ==
    /\ Step
    /\ v # w
    /\ Live(v)
    /\ Live(w)
    /\ \E count \in { vecs[w].len } :
       \E r \in { reserve(vecs[v], count, pos, cap, mem, release) } :
       \E len \in { r.vec.len } :
           /\ pos' = r.pos
           /\ outcome' \in Access(r.status, PastBuffer(r.vec, len + count)
                                               \/ PastBuffer(vecs[w], count))
           /\ last' = LastOp("append", 0, NullPtr, FALSE, v, w)
           /\ IF r.status = "ok"
                THEN /\ mem' = Copy(r.mem, vecs[w].ptr, Slot(r.vec.ptr, len), count)
                     /\ vecs' = [vecs EXCEPT ![v] = r.vec, ![w].len = 0]
                     /\ refs' = [refs EXCEPT ![v] = @ \o refs[w], ![w] = <<>>]
                ELSE /\ mem' = r.mem
                     /\ vecs' = [vecs EXCEPT ![v] = r.vec]
                     /\ UNCHANGED refs
    /\ UNCHANGED <<regionVars, release, cap, arena, blocks, strong, handles, drops, stored, nextId>>

\* vec.clear() whose drop_in_place leaves out the first element
VecClearSkipsFirst(v) ==
    /\ Step
    /\ Live(v)
    /\ drops' = DropRange(drops, mem, vecs[v].ptr, 1, vecs[v].len)
    /\ vecs' = [vecs EXCEPT ![v].len = 0]
    /\ refs' = [refs EXCEPT ![v] = <<>>]
    /\ last' = LastOp("clear", 0, NullPtr, FALSE, 0, 0)
    /\ outcome' \in Access("ok", PastBuffer(vecs[v], vecs[v].len))
    /\ UNCHANGED <<regionVars, release, cap, arena, blocks, pos, strong, handles, mem, stored, nextId>>

\* vec.clear()
VecClear(v) ==
    /\ Step
    /\ Live(v)
    /\ drops' = DropRange(drops, mem, vecs[v].ptr, 0, vecs[v].len)
    /\ vecs' = [vecs EXCEPT ![v].len = 0]
    /\ refs' = [refs EXCEPT ![v] = <<>>]
    /\ last' = LastOp("clear", 0, NullPtr, FALSE, 0, 0)
    /\ outcome' \in Access("ok", PastBuffer(vecs[v], vecs[v].len))
    /\ UNCHANGED <<regionVars, release, cap, arena, blocks, pos, strong, handles, mem, stored, nextId>>

\* w = vec.split_off(at), for at <= len
SplitOff(v, at, w) ==
    /\ Step
    /\ v # w
    /\ Live(v)
    /\ ~Live(w)
    /\ at <= vecs[v].len
    /\ \E vec \in { vecs[v] } :
       \E n \in { vec.len - at } :
       \E r \in { with_capacity(n, pos, cap, release) } :
           /\ pos' = r.pos
           /\ outcome' \in Access(r.status, n > 0 /\ PastBuffer(vec, vec.len))
           /\ last' = LastOp("split_off", 0, NullPtr, FALSE, v, w)
           /\ IF r.status = "ok"
                THEN /\ vecs' = [vecs EXCEPT ![w] = [r.vec EXCEPT !.len = n]]
                     /\ mem' = Copy(mem, Slot(vec.ptr, at), r.vec.ptr, n)
                     /\ strong' = strong + 1
                     /\ refs' = [refs EXCEPT ![v] = Take(@, at),
                                             ![w] = SubSeq(refs[v], at + 1, Len(refs[v]))]
                ELSE UNCHANGED <<vecs, mem, strong, refs>>
    /\ UNCHANGED <<regionVars, release, cap, arena, blocks, handles, drops, stored, nextId>>

\* the elements written into the slots from.. of a block
WriteSeq(m, ptr, from, es) ==
    LET target == { Slot(ptr, from + k - 1) : k \in 1..Len(es) }
    IN  [x \in DOMAIN m \cup target |->
            IF x \in target THEN es[((x - ptr) \div ElemSize) - from + 1] ELSE m[x]]

\* the writes of resize / resize_with started at the first slot instead of the
\* slot at the old length
resize_fill_from_start(r, old_len, len, es) ==
    IF r.status # "ok" THEN r
    ELSE [status |-> "ok",
          vec |-> [r.vec EXCEPT !.len = len],
          pos |-> r.pos,
          mem |-> IF len > old_len THEN WriteSeq(r.mem, r.vec.ptr, 0, es)
                                   ELSE r.mem]

\* the writes of resize / resize_with after the reserve r, and the new length
resize_fill(r, old_len, len, es) ==
    IF r.status # "ok" THEN r
    ELSE [status |-> "ok",
          vec |-> [r.vec EXCEPT !.len = len],
          pos |-> r.pos,
          mem |-> IF len > old_len THEN WriteSeq(r.mem, r.vec.ptr, old_len, es)
                                   ELSE r.mem]

\* SliceVec::resize; es are the clones of value and, last, value itself
resize(vec, len, es, p, c, m, rel) ==
    IF vec.capacity >= len THEN resize_fill(Kept("ok", vec, p, m), vec.len, len, es)
    ELSE IF len < vec.len /\ ~rel THEN Kept("panic", vec, p, m)
    ELSE resize_fill(reserve(vec, (len - vec.len + Word) % Word, p, c, m, rel),
                     vec.len, len, es)

\* SliceVec::resize_with; es are the results of the calls of f, in order
resize_with(vec, len, es, p, c, m, rel) ==
    IF vec.capacity >= len THEN resize_fill(Kept("ok", vec, p, m), vec.len, len, es)
    ELSE IF len < vec.len /\ ~rel THEN Kept("panic", vec, p, m)
    ELSE resize_fill(reserve(vec, (len - vec.len + Word) % Word, p, c, m, rel),
                     vec.len, len, es)

\* SliceVec::extend_from_slice: push a clone of each item
RECURSIVE extend_from_slice(_, _, _, _, _, _)
extend_rest(r, es, c, rel) ==
    IF r.status # "ok" THEN r
    ELSE extend_from_slice(r.vec, es, r.pos, c, r.mem, rel)

extend_from_slice(vec, es, p, c, m, rel) ==
    IF es = <<>> THEN Kept("ok", vec, p, m)
    ELSE extend_rest(push(vec, es[1], p, c, m, rel), Tail(es), c, rel)

\* the n elements a growing resize(len, value) writes: n - 1 clones, then value
ResizeElems(n, id) == [k \in 1..n |-> IF k = n THEN Elem(id, id) ELSE Elem(id + k, id)]

\* n new elements, each with its own value
NewElems(n, id) == [k \in 1..n |-> Elem(id + k - 1, id + k - 1)]

ElemIds(es) == { es[k].id : k \in 1..Len(es) }
ElemVals(es) == [k \in 1..Len(es) |-> es[k].val]

\* Vec::resize / Vec::resize_with of the reference array
RefResize(s, len, vals) ==
    IF len <= Len(s) THEN SubSeq(s, 1, len)
    ELSE s \o SubSeq(vals, 1, len - Len(s))

\* vec.resize(len, value) with a new value
Resize(v, len) ==
    /\ Step
    /\ Live(v)
    /\ \E vec \in { vecs[v] } :
       \E n \in { IF len > vec.len THEN len - vec.len ELSE 0 } :
       \E es \in { ResizeElems(n, nextId) } :
       \E r \in { resize(vec, len, es, pos, cap, mem, release) } :
           /\ nextId + n - 1 <= MaxIds
           /\ pos' = r.pos
           /\ outcome' \in Access(r.status, len # vec.len
                                               /\ PastBuffer(r.vec, Max(len, vec.len)))
           /\ last' = LastOp("resize", 0, NullPtr, FALSE, 0, 0)
           /\ vecs' = [vecs EXCEPT ![v] = r.vec]
           /\ mem' = r.mem
           /\ IF r.status = "ok"
                THEN /\ drops' = DropRange(drops, mem, vec.ptr, len, vec.len)
                     /\ stored' = stored \cup ElemIds(es)
                     /\ nextId' = nextId + n
                     /\ refs' = [refs EXCEPT ![v] =
                                    RefResize(@, len, [k \in 1..len |-> nextId])]
                ELSE UNCHANGED <<drops, stored, nextId, refs>>
    /\ UNCHANGED <<regionVars, release, cap, arena, blocks, strong, handles>>

\* vec.resize_with(len, f) with f making a new element at each call
ResizeWith(v, len) ==
    /\ Step
    /\ Live(v)
    /\ \E vec \in { vecs[v] } :
       \E n \in { IF len > vec.len THEN len - vec.len ELSE 0 } :
       \E es \in { NewElems(n, nextId) } :
       \E r \in { resize_with(vec, len, es, pos, cap, mem, release) } :
           /\ nextId + n - 1 <= MaxIds
           /\ pos' = r.pos
           /\ outcome' \in Access(r.status, len # vec.len
                                               /\ PastBuffer(r.vec, Max(len, vec.len)))
           /\ last' = LastOp("resize_with", 0, NullPtr, FALSE, 0, 0)
           /\ vecs' = [vecs EXCEPT ![v] = r.vec]
           /\ mem' = r.mem
           /\ IF r.status = "ok"
                THEN /\ drops' = DropRange(drops, mem, vec.ptr, len, vec.len)
                     /\ stored' = stored \cup ElemIds(es)
                     /\ nextId' = nextId + n
                     /\ refs' = [refs EXCEPT ![v] =
                                    RefResize(@, len, [k \in 1..len |-> nextId + k - 1])]
                ELSE UNCHANGED <<drops, stored, nextId, refs>>
    /\ UNCHANGED <<regionVars, release, cap, arena, blocks, strong, handles>>

\* vec.extend_from_slice(items) with n items; the clones are new elements
ExtendFromSlice(v, n) ==
    /\ Step
    /\ Live(v)
    /\ nextId + n - 1 <= MaxIds
    /\ \E vec \in { vecs[v] } :
       \E es \in { NewElems(n, nextId) } :
       \E r \in { extend_from_slice(vec, es, pos, cap, mem, release) } :
       \E done \in { SubSeq(es, 1, r.vec.len - vec.len) } :
           /\ pos' = r.pos
           /\ outcome' \in Access(r.status, r.vec.len > vec.len
                                               /\ PastBuffer(r.vec, r.vec.len))
           /\ last' = LastOp("extend_from_slice", 0, NullPtr, FALSE, 0, 0)
           /\ vecs' = [vecs EXCEPT ![v] = r.vec]
           /\ mem' = r.mem
           /\ stored' = stored \cup ElemIds(done)
           /\ nextId' = nextId + Len(done)
           /\ refs' = [refs EXCEPT ![v] = @ \o ElemVals(done)]
    /\ UNCHANGED <<regionVars, release, cap, arena, blocks, strong, handles, drops>>

\* w = vec.clone()
CloneVec(v, w) ==
    /\ Step
    /\ v # w
    /\ Live(v)
    /\ ~Live(w)
    /\ nextId + vecs[v].len - 1 <= MaxIds
    /\ \E vec \in { vecs[v] } :
       \E r \in { with_capacity(vec.capacity, pos, cap, release) } :
       \E es \in { [k \in 1..vec.len |->
                       Elem(nextId + k - 1, MemAt(mem, Slot(vec.ptr, k - 1)).val)] } :
           /\ pos' = r.pos
           /\ outcome' \in Access(r.status, PastBuffer(vec, vec.len))
           /\ last' = LastOp("clone", 0, NullPtr, FALSE, v, w)
           /\ IF r.status = "ok"
                THEN /\ vecs' = [vecs EXCEPT ![w] = [r.vec EXCEPT !.len = vec.len]]
                     /\ mem' = WriteSeq(mem, r.vec.ptr, 0, es)
                     /\ strong' = strong + 1
                     /\ stored' = stored \cup ElemIds(es)
                     /\ nextId' = nextId + vec.len
                     /\ refs' = [refs EXCEPT ![w] = refs[v]]
                ELSE UNCHANGED <<vecs, mem, strong, stored, nextId, refs>>
    /\ UNCHANGED <<regionVars, release, cap, arena, blocks, handles, drops>>

\* a drop of a vector that destructs the elements but keeps the vector's
\* reference to the arena counted
DropVecKeepsHandle(v) ==
    /\ Step
    /\ Live(v)
    /\ drops' = DropRange(drops, mem, vecs[v].ptr, 0, vecs[v].len)
    /\ vecs' = [vecs EXCEPT ![v] = NoVec]
    /\ refs' = [refs EXCEPT ![v] = <<>>]
    /\ last' = LastOp("drop", 0, NullPtr, FALSE, 0, 0)
    /\ outcome' \in Access("ok", PastBuffer(vecs[v], vecs[v].len)
                                     \/ (~arena.live /\ vecs[v].len > 0))
    /\ UNCHANGED <<regionVars, release, cap, arena, blocks, pos, strong, handles, mem, stored, nextId>>

\* drop(vec): Drop for Slice destructs the elements [0, len), the handle goes;
\* elements in a buffer that was released already are read after their release
DropVec(v) ==
    /\ Step
    /\ Live(v)
    /\ drops' = DropRange(drops, mem, vecs[v].ptr, 0, vecs[v].len)
    /\ vecs' = [vecs EXCEPT ![v] = NoVec]
    /\ refs' = [refs EXCEPT ![v] = <<>>]
    /\ strong' = strong - 1
    /\ last' = LastOp("drop", 0, NullPtr, FALSE, 0, 0)
    /\ outcome' \in Access("ok", PastBuffer(vecs[v], vecs[v].len)
                                     \/ (~arena.live /\ vecs[v].len > 0))
    /\ UNCHANGED <<regionVars, release, cap, arena, blocks, pos, handles, mem, stored, nextId>>

----------------------------------------------------------------------------
(* rc.rs: the shared-ownership arena *)

\* Arena::inner: another reference to the arena's guts
Inner ==
    /\ Step
    /\ handles < MaxHandles
    /\ handles' = handles + 1
    /\ strong' = strong + 1
    /\ last' = LastOp("inner", 0, NullPtr, FALSE, 0, 0)
    /\ outcome' = "ok"
    /\ UNCHANGED <<regionVars, release, cap, arena, blocks, pos, vecs, refs, mem, drops, stored, nextId>>

\* drop of an InnerRef the caller holds
DropHandle ==
    /\ Step
    /\ handles > 0
    /\ handles' = handles - 1
    /\ strong' = strong - 1
    /\ last' = LastOp("drop_handle", 0, NullPtr, FALSE, 0, 0)
    /\ outcome' = "ok"
    /\ UNCHANGED <<regionVars, release, cap, arena, blocks, pos, vecs, refs, mem, drops, stored, nextId>>

\* a clear that rewinds the cursor whatever the reference count
clear_unchecked(count, p) == [status |-> "ok", pos |-> 0]

\* Arena::clear: assert!(1 == Rc::strong_count(&self.inner)); pos.set(0)
clear(count, p) ==
    IF 1 = count THEN [status |-> "ok", pos |-> 0]
                 ELSE [status |-> "panic", pos |-> p]

\* arena.clear(); what the rewound buffer held is dead
ArenaClear ==
    /\ Step
    /\ \E r \in { clear(strong, pos) } :
           /\ pos' = r.pos
           /\ outcome' = r.status
           /\ mem' = IF r.status = "ok" THEN <<>> ELSE mem
    /\ last' = LastOp("arena_clear", pos, NullPtr, FALSE, 0, 0)
    /\ UNCHANGED <<regionVars, release, cap, arena, blocks, strong, handles, vecs, refs, drops,
                   stored, nextId>>

NextVec ==
    \/ \E v \in 1..NumVecs : New(v)
    \/ \E v \in 1..NumVecs, c \in Capacities : WithCapacity(v, c)
    \/ \E v \in 1..NumVecs, a \in Additionals : Reserve(v, a)
    \/ \E v \in 1..NumVecs, n \in 0..MaxArg : Truncate(v, n)
    \/ \E v \in 1..NumVecs, i \in 0..MaxArg : SwapRemove(v, i)
    \/ \E v \in 1..NumVecs : Push(v)
    \/ \E v \in 1..NumVecs : Pop(v)
    \/ \E v \in 1..NumVecs, w \in 1..NumVecs : AppendVec(v, w)
    \/ \E v \in 1..NumVecs : VecClear(v)
    \/ \E v \in 1..NumVecs, w \in 1..NumVecs, at \in 0..MaxArg : SplitOff(v, at, w)
    \/ \E v \in 1..NumVecs, n \in 0..MaxArg : Resize(v, n)
    \/ \E v \in 1..NumVecs, n \in 0..MaxArg : ResizeWith(v, n)
    \/ \E v \in 1..NumVecs, n \in 1..MaxSlice : ExtendFromSlice(v, n)
    \/ \E v \in 1..NumVecs, w \in 1..NumVecs : CloneVec(v, w)
    \/ \E v \in 1..NumVecs : DropVec(v)
    \/ Inner
    \/ DropHandle
    \/ ArenaClear

SpecVec == InitVec /\ [][NextVec]_vars

\* the calls that change the reference count of the arena, and clear
NextRc ==
    \/ \E v \in 1..NumVecs : New(v)
    \/ \E v \in 1..NumVecs, c \in Capacities : WithCapacity(v, c)
    \/ \E v \in 1..NumVecs : Push(v)
    \/ \E v \in 1..NumVecs : DropVec(v)
    \/ Inner
    \/ DropHandle
    \/ ArenaClear

SpecRc == InitVec /\ [][NextRc]_vars

\* the life of the elements of vectors that are never appended, split or cloned
NextDrop ==
    \/ \E v \in 1..NumVecs : New(v)
    \/ \E v \in 1..NumVecs, c \in Capacities : WithCapacity(v, c)
    \/ \E v \in 1..NumVecs, a \in Additionals : Reserve(v, a)
    \/ \E v \in 1..NumVecs, n \in 0..MaxArg : Truncate(v, n)
    \/ \E v \in 1..NumVecs, i \in 0..MaxArg : SwapRemove(v, i)
    \/ \E v \in 1..NumVecs : Push(v)
    \/ \E v \in 1..NumVecs : Pop(v)
    \/ \E v \in 1..NumVecs : VecClear(v)
    \/ \E v \in 1..NumVecs, n \in 0..MaxArg : Resize(v, n)
    \/ \E v \in 1..NumVecs : DropVec(v)

SpecDrop == InitVec /\ [][NextDrop]_vars

----------------------------------------------------------------------------
(* Claims on SliceVec and on the shared-ownership arena *)

\* C3: growth never raises a vector's capacity to cover bytes beyond
\* base + capacity of the arena: growth that would pass the end of the buffer
\* ends in the fatal overflow instead, for a fresh block and for an in-place
\* extension alike.
C3_GrowthWithinBuffer ==
    \A v \in 1..NumVecs :
        (Live(v) /\ vecs[v].capacity > 0)
            => Slot(vecs[v].ptr, vecs[v].capacity) <= HeadAddr + cap

\* C6: clear() rewinds the cursor exactly when the reference count is 1: with
\* count 1 it succeeds and the position becomes 0, with a count above 1 it is
\* refused and the position stays.
C6_ClearOnlyWhenSoleOwner ==
    [][ (last'.op = "arena_clear")
            => IF strong = 1
                 THEN pos' = 0 /\ outcome' = "ok"
                 ELSE pos' = pos /\ outcome' # "ok" ]_vars

\* a clear that rewound a cursor that had advanced
C6_Witness ==
    /\ last.op = "arena_clear"
    /\ last.before > 0
    /\ strong = 1
    /\ outcome = "ok"
    /\ pos = 0

\* C7: clear() with a handle other than the owner alive returns the CannotClear
\* error value, does not panic, and leaves the cursor where it was.
C7_ClearReportsCannotClear ==
    [][ (last'.op = "arena_clear" /\ strong > 1)
            => (outcome' = "CannotClear" /\ pos' = pos) ]_vars

\* C8: after every step the contents of each vector (length, values in order)
\* equal those of the reference array that received the same operations.
C8_MatchesReference ==
    ~Halted => \A v \in 1..NumVecs :
                   IF Live(v) THEN Values(vecs[v], mem) = refs[v]
                              ELSE refs[v] = <<>>

C10_AppendMoves ==
    [][ (last'.op = "append" /\ outcome' = "ok")
            => /\ vecs'[last'.v].len = vecs[last'.v].len + vecs[last'.arg].len
               /\ Elements(vecs'[last'.v], mem')
                      = Elements(vecs[last'.v], mem) \o Elements(vecs[last'.arg], mem)
               /\ vecs'[last'.arg].len = 0 ]_vars

\* C11: split_off(at) returns the former elements [at, length) and leaves self
\* with the former elements [0, at): the two sequences together hold the former
\* contents in order, each element in exactly one of them.
C11_SplitOffDivides ==
    [][ (last'.op = "split_off" /\ outcome' = "ok")
            => /\ vecs'[last'.v].len + vecs'[last'.arg].len = vecs[last'.v].len
               /\ Elements(vecs'[last'.v], mem') \o Elements(vecs'[last'.arg], mem')
                      = Elements(vecs[last'.v], mem) ]_vars

\* the calls that make and drop references to the arena's guts: handles, and
\* sequences created, cloned and dropped
NextHandles ==
    \/ \E v \in 1..NumVecs : New(v)
    \/ \E v \in 1..NumVecs, c \in Capacities : WithCapacity(v, c)
    \/ \E v \in 1..NumVecs : Push(v)
    \/ \E v \in 1..NumVecs, w \in 1..NumVecs : CloneVec(v, w)
    \/ \E v \in 1..NumVecs : DropVec(v)
    \/ Inner
    \/ DropHandle

SpecHandles == InitVec /\ [][NextHandles]_vars

\* the sequences that are live, each holding one InnerRef
LiveVecs == { v \in 1..NumVecs : vecs[v].live }

\* C28: on the shared-ownership arena the live-reference count is, in every
\* reachable state, 1 for the owner plus the number of handles the caller holds
\* plus one for every live sequence: inner() and clone add exactly 1, the drop
\* of a handle or of a sequence subtracts exactly 1.
C28_StrongCountsHandles ==
    strong = 1 + handles + Cardinality(LiveVecs)

\* a sequence was dropped while a handle and a cloned sequence were live: the
\* count fell from 4 to 3
C28_Witness ==
    /\ last.op = "drop"
    /\ outcome = "ok"
    /\ handles = 1
    /\ Cardinality(LiveVecs) = 1
    /\ \E v \in LiveVecs : vecs[v].len = 1 /\ MemAt(mem, Slot(vecs[v].ptr, 0)).id = 2
    /\ strong = 3

\* C19: length <= capacity holds for every sequence, the receiver and any
\* returned or argument sequence, after any sequence of operations.
C19_LenWithinCapacity ==
    \A v \in 1..NumVecs : vecs[v].live => vecs[v].len <= vecs[v].capacity

\* a push filled a vector that had grown from capacity 1 to capacity 2
C19_Witness ==
    /\ last.op = "push"
    /\ outcome = "ok"
    /\ \E v \in 1..NumVecs :
           vecs[v].live /\ vecs[v].len = 2 /\ vecs[v].capacity = 2

\* the first value of the doubling sequence c, 2c, 4c, ... that is >= need
RECURSIVE FirstDoubling(_, _)
FirstDoubling(c, need) == IF c >= need THEN c ELSE FirstDoubling(2 * c, need)

\* the capacity after a reserve that returns
ReservedCapacity(vec, additional) ==
    IF vec.capacity >= vec.len + additional THEN vec.capacity
    ELSE FirstDoubling(IF vec.capacity = 0 THEN 4 ELSE vec.capacity,
                       vec.len + additional)

\* C21: after reserve(additional) capacity >= length + additional; the
\* capacity is unchanged when that already held and is otherwise the first
\* value of the doubling sequence c, 2c, 4c, ... (c the old capacity, or 4 if it
\* was 0) that is >= length + additional.
C21_ReserveEnsuresCapacity ==
    [][ \A v \in 1..NumVecs, additional \in Additionals :
            (Reserve(v, additional) /\ outcome' = "ok")
                => /\ vecs'[v].capacity >= vecs[v].len + additional
                   /\ vecs'[v].capacity = ReservedCapacity(vecs[v], additional) ]_vars

----------------------------------------------------------------------------
(* tests/rc.rs: vectors that are created and then only resized *)

NextResize ==
    \/ \E v \in 1..NumVecs : New(v)
    \/ \E v \in 1..NumVecs, c \in Capacities : WithCapacity(v, c)
    \/ \E v \in 1..NumVecs, n \in 0..MaxArg : Resize(v, n)
    \/ \E v \in 1..NumVecs, n \in 0..MaxArg : ResizeWith(v, n)

SpecResize == InitVec /\ [][NextResize]_vars

\* how often the destructor of element id runs when the slots [from, to) of the
\* vector are destructed
Destructed(vec, from, to, id) ==
    Cardinality({ i \in from..(to - 1) : MemAt(mem, Slot(vec.ptr, i)).id = id })

\* the step acted on vector v: the other vectors are as they were
OnlyChanged(v) == \A w \in 1..NumVecs : w # v => vecs'[w] = vecs[w]

\* what resize and resize_with have in common: the new length, the capacity,
\* the elements kept and the elements destructed
Resized(v, len) ==
    /\ vecs'[v].len = len
    /\ vecs'[v].capacity >= len
    /\ \A i \in 1..vecs[v].len :
           i <= len => Elements(vecs'[v], mem')[i] = Elements(vecs[v], mem)[i]
    /\ \A id \in 1..MaxIds :
           drops'[id] = drops[id] + Destructed(vecs[v], len, vecs[v].len, id)

\* C22: after resize(len, value) and resize_with(len, factory) length == len
\* and capacity >= len; the elements [0, min(old length, len)) are unchanged;
\* every element in [old length, len) equals value, or is the result of one of
\* exactly len - old length calls of the factory; exactly the elements
\* [len, old length) are destructed.
C22_ResizeSetsLength ==
    [][ \A v \in 1..NumVecs, len \in 0..MaxArg :
            /\ (last'.op = "resize" /\ outcome' = "ok" /\ OnlyChanged(v)
                   /\ Resize(v, len))
                   => /\ Resized(v, len)
                      /\ \A i \in (vecs[v].len + 1)..len :
                             Elements(vecs'[v], mem')[i].val = nextId
            /\ (last'.op = "resize_with" /\ outcome' = "ok" /\ OnlyChanged(v)
                   /\ ResizeWith(v, len))
                   => /\ Resized(v, len)
                      /\ nextId' = nextId + (IF len > vecs[v].len
                                               THEN len - vecs[v].len ELSE 0)
                      /\ \A i \in (vecs[v].len + 1)..len :
                             Elements(vecs'[v], mem')[i]
                                 = Elem(nextId + i - vecs[v].len - 1,
                                        nextId + i - vecs[v].len - 1) ]_vars

\* a resize_with left two factory results in a vector whose capacity had to grow
C22_Witness ==
    /\ last.op = "resize_with"
    /\ outcome = "ok"
    /\ \E v \in 1..NumVecs :
           /\ vecs[v].live
           /\ vecs[v].len = 2
           /\ vecs[v].capacity = 2
           /\ Values(vecs[v], mem) = <<1, 2>>

----------------------------------------------------------------------------
(* vectors that are pushed to, shortened and dropped *)

NextShrink ==
    \/ \E v \in 1..NumVecs : New(v)
    \/ \E v \in 1..NumVecs, c \in Capacities : WithCapacity(v, c)
    \/ \E v \in 1..NumVecs : Push(v)
    \/ \E v \in 1..NumVecs : Pop(v)
    \/ \E v \in 1..NumVecs, i \in 0..MaxArg : SwapRemove(v, i)
    \/ \E v \in 1..NumVecs, n \in 0..MaxArg : Truncate(v, n)
    \/ \E v \in 1..NumVecs : VecClear(v)
    \/ \E v \in 1..NumVecs : DropVec(v)

SpecShrink == InitVec /\ [][NextShrink]_vars

\* the destructor of element e has run once more, and no other destructor has run
DroppedOnly(e) ==
    \A id \in 1..MaxIds : drops'[id] = drops[id] + (IF id = e.id THEN 1 ELSE 0)

\* C23: swap_remove(i) with i < length returns the element formerly at index
\* i, leaves the former last element at index i, decrements the length by one
\* and leaves every other element and the capacity unchanged; with i >= length
\* it panics without changing the vector.
C23_SwapRemoveSwaps ==
    [][ \A v \in 1..NumVecs, index \in 0..MaxArg :
            (last'.op = "swap_remove" /\ OnlyChanged(v) /\ SwapRemove(v, index))
                => IF index < vecs[v].len
                     THEN outcome' = "ok"
                            => /\ vecs'[v].len = vecs[v].len - 1
                               /\ vecs'[v].capacity = vecs[v].capacity
                               /\ Elements(vecs'[v], mem')
                                      = RefSwapRemove(Elements(vecs[v], mem), index)
                               /\ DroppedOnly(Elements(vecs[v], mem)[index + 1])
                     ELSE /\ outcome' = "panic"
                          /\ vecs' = vecs
                          /\ Elements(vecs'[v], mem') = Elements(vecs[v], mem)
                          /\ drops' = drops ]_vars

\* the first of three elements was removed: the third took its place
C23_Witness ==
    /\ last.op = "swap_remove"
    /\ outcome = "ok"
    /\ \E v \in 1..NumVecs :
           /\ vecs[v].live
           /\ Values(vecs[v], mem) = <<3, 2>>
           /\ drops[1] = 1

\* C24: pop() on an empty vector returns None and changes nothing; on a
\* non-empty vector it returns the last element and decrements the length by
\* one, the element being destructed by nobody but the caller who got it; a
\* pop() right after push(value) returns value and restores the previous
\* length and contents.
C24_PopUndoesPush ==
    [][ \A v \in 1..NumVecs :
            /\ (last'.op = "pop" /\ outcome' = "ok" /\ OnlyChanged(v) /\ Pop(v))
                   => /\ vecs'[v] = pop(vecs[v], mem).vec
                      /\ mem' = mem
                      /\ pos' = pos
                      /\ IF vecs[v].len = 0
                           THEN ~pop(vecs[v], mem).some /\ vecs' = vecs /\ drops' = drops
                           ELSE /\ pop(vecs[v], mem).out
                                      = Elements(vecs[v], mem)[vecs[v].len]
                                /\ vecs'[v].len = vecs[v].len - 1
                                /\ Elements(vecs'[v], mem')
                                      = SubSeq(Elements(vecs[v], mem), 1, vecs[v].len - 1)
                                /\ DroppedOnly(pop(vecs[v], mem).out)
            /\ (last'.op = "push" /\ outcome' = "ok" /\ OnlyChanged(v) /\ Push(v))
                   => /\ pop(vecs'[v], mem').some
                      /\ pop(vecs'[v], mem').out = Elem(nextId, nextId)
                      /\ pop(vecs'[v], mem').vec.len = vecs[v].len
                      /\ Elements(pop(vecs'[v], mem').vec, mem')
                             = Elements(vecs[v], mem) ]_vars

\* the element pushed last was popped again: the two elements pushed before
\* it are what the vector holds
C24_Witness ==
    /\ last.op = "pop"
    /\ outcome = "ok"
    /\ nextId = 4
    /\ drops[3] = 1
    /\ \E v \in 1..NumVecs :
           vecs[v].live /\ Values(vecs[v], mem) = <<1, 2>>

\* C25: clear() sets the length to 0 and destructs every former element
\* exactly once, while the capacity, the block pointer and the cursor position
\* of the arena are unchanged.
C25_ClearKeepsBlock ==
    [][ \A v \in 1..NumVecs :
            (last'.op = "clear" /\ outcome' = "ok" /\ OnlyChanged(v) /\ VecClear(v))
                => /\ vecs'[v] = [vecs[v] EXCEPT !.len = 0]
                   /\ pos' = pos
                   /\ \A id \in 1..MaxIds :
                          drops'[id] = drops[id]
                                         + Destructed(vecs[v], 0, vecs[v].len, id) ]_vars

\* a vector of three elements was cleared: each was destructed once and the
\* block of capacity 4 is still the vector's
C25_Witness ==
    /\ last.op = "clear"
    /\ outcome = "ok"
    /\ drops = [id \in 1..MaxIds |-> IF id <= 3 THEN 1 ELSE 0]
    /\ \E v \in 1..NumVecs :
           /\ vecs[v].live
           /\ vecs[v].len = 0
           /\ vecs[v].capacity = 4
           /\ vecs[v].ptr = HeadAddr + Quantum
           /\ pos = Quantum + 4 * ElemSize

\* the operations that shorten or end a vector
ShrinkOps == {"drop", "pop", "truncate", "swap_remove", "clear"}

\* C30: the drop of a sequence, and pop, truncate, swap_remove and clear on a
\* vector, leave the cursor position of the arena as it was: no bytes go back
\* to the arena.
C30_ShrinkKeepsCursor ==
    [][ last'.op \in ShrinkOps => pos' = pos ]_vars

\* a truncate destructed the one element of a vector of capacity 4, and the
\* cursor still stands behind the block of four
C30_Witness ==
    /\ last.op = "truncate"
    /\ outcome = "ok"
    /\ drops[1] = 1
    /\ pos = Quantum + 4 * ElemSize
    /\ \E v \in 1..NumVecs :
           /\ vecs[v].live
           /\ vecs[v].len = 0
           /\ vecs[v].capacity = 4
           /\ vecs[v].ptr = HeadAddr + Quantum

----------------------------------------------------------------------------
(* tests/basic_slicevec.rs: several vectors of one arena that are pushed to,  *)
(* resized, reserved, cloned and dropped in any order                         *)

\* the lengths and the additional capacities a caller asks for; with the
\* largest additional capacity the byte count of the doubled capacity needs
\* more than a machine word
ShareLens == {0, 1, 9}
ShareAdditionals == {1, 5, (Word \div ElemSize) - 1}

NextShare ==
    \/ \E v \in 1..NumVecs : New(v)
    \/ \E v \in 1..NumVecs, c \in Capacities : WithCapacity(v, c)
    \/ \E v \in 1..NumVecs : Push(v)
    \/ \E v \in 1..NumVecs, n \in ShareLens : Resize(v, n)
    \/ \E v \in 1..NumVecs, a \in ShareAdditionals : Reserve(v, a)
    \/ \E v \in 1..NumVecs, w \in 1..NumVecs : CloneVec(v, w)
    \/ \E v \in 1..NumVecs : DropVec(v)

SpecShare == InitVec /\ [][NextShare]_vars

\* the operations tests/basic_slicevec.rs interleaves
ShareOps == {"push", "resize", "reserve", "clone", "drop"}

\* C26: when several vectors share one arena and push, resize, reserve, clone
\* and drop are interleaved among them, an operation on one vector that returns
\* leaves the length and the elements of every other live vector as they were,
\* whether the operated vector grew in place or moved.
C26_OthersUntouched ==
    [][ \A v \in 1..NumVecs :
            (last'.op \in ShareOps /\ outcome' = "ok" /\ OnlyChanged(v))
                => \A w \in (1..NumVecs) \ {v} :
                       vecs[w].live
                           => /\ vecs'[w].len = vecs[w].len
                              /\ Elements(vecs'[w], mem') = Elements(vecs[w], mem) ]_vars

----------------------------------------------------------------------------
(* tests/rc.rs: vectors that are created and then only pushed to *)

\* how many elements are pushed over a run
MaxPushes == 5

\* vec.push(elem) in a run of pushes
PushOnly(v) ==
    /\ ~Halted
    /\ nextId <= MaxPushes
    /\ DoPush(v)
    /\ UNCHANGED ops

NextPush ==
    \/ \E v \in 1..NumVecs : New(v)
    \/ \E v \in 1..NumVecs, c \in Capacities : WithCapacity(v, c)
    \/ \E v \in 1..NumVecs : PushOnly(v)

SpecPush == InitVec /\ [][NextPush]_vars

\* the capacity after a push that returns
PushedCapacity(vec) ==
    IF vec.len < vec.capacity THEN vec.capacity
    ELSE IF vec.capacity = 0 THEN 4
    ELSE 2 * vec.capacity

\* C20: a push that returns leaves the capacity unchanged when length <
\* capacity and otherwise makes it 4 if it was 0 and twice the capacity if not;
\* the value is stored at index old length and the length grows by 1.
C20_PushGrowsByDoubling ==
    [][ \A v \in 1..NumVecs :
            (PushOnly(v) /\ outcome' = "ok")
                => /\ vecs'[v].capacity = PushedCapacity(vecs[v])
                   /\ vecs'[v].len = vecs[v].len + 1
                   /\ MemAt(mem', Slot(vecs'[v].ptr, vecs[v].len))
                          = Elem(nextId, nextId) ]_vars

\* the fifth push to a vector made by new(): length 5 and capacity 8, the first
\* four elements still in place
C20_Witness ==
    /\ last.op = "push"
    /\ outcome = "ok"
    /\ ops = 1
    /\ \E v \in 1..NumVecs :
           /\ vecs[v].live
           /\ vecs[v].len = 5
           /\ vecs[v].capacity = 8
           /\ Values(vecs[v], mem) = <<1, 2, 3, 4, 5>>

----------------------------------------------------------------------------
(* region.rs: the arena locked by a generation token *)

\* capacity of the region arena
RegionCap == 256

\* how many ArenaToken values and how many sequences may be alive at once
MaxTokens == 2
MaxSeqs == 2

\* the capacities asked for a sequence of the region arena
SeqCounts == {0, 1, 2, 4}

\* ArenaToken::allocate
allocate(p, c, size, align, count, rel) ==
    LET low     == p % align
        skipM   == Quantum - low
        skipW   == (skipM + Word) % Word
        skip    == IF skipW = align THEN 0 ELSE skipW
        prodM   == size * count
        prodW   == prodM % Word
        addM    == skip + prodW
        addW    == addM % Word
        sumM    == p + addW
        sumW    == sumM % Word
        ovf     == skipM < 0 \/ prodM >= Word \/ addM >= Word \/ sumM >= Word
        ret     == (HeadAddr + ((p + skip) % Word)) % Word
    IN  IF ~rel /\ ovf
          THEN [status |-> "panic", pos |-> p, ret |-> NullPtr]
        ELSE IF ~(sumW <= c)
          THEN [status |-> "panic", pos |-> p, ret |-> NullPtr]
        ELSE IF ~rel /\ (~(ret >= HeadAddr) \/ ~(ret < HeadAddr + c))
          THEN [status |-> "panic", pos |-> sumW, ret |-> NullPtr]
        ELSE [status |-> "ok", pos |-> sumW, ret |-> ret]

\* ArenaToken::allocate_or_extend
allocate_or_extend(p, c, ptr, old_count, count, size, align, rel) ==
    LET next   == (HeadAddr + p) % Word
        end    == (ptr + old_count * size) % Word
        diffM  == count - old_count
        diffW  == (diffM + Word) % Word
        bytesM == diffW * size
        bytesW == bytesM % Word
        sumM   == p + bytesW
        sumW   == sumM % Word
        ovf    == diffM < 0 \/ bytesM >= Word \/ sumM >= Word
    IN  IF ptr = NullPtr THEN allocate(p, c, size, align, count, rel)
        ELSE IF next = end
          THEN IF ~rel /\ ovf
                 THEN [status |-> "panic", pos |-> p, ret |-> NullPtr]
                 ELSE [status |-> "ok", pos |-> sumW, ret |-> ptr]
        ELSE allocate(p, c, size, align, count, rel)

\* region Slice::new_empty: a null pointer for no elements, else token.allocate
token_new_empty(real_len, p, c, rel) ==
    IF real_len = 0 THEN [status |-> "ok", pos |-> p, ret |-> NullPtr]
    ELSE allocate(p, c, ElemSize, ElemAlign, real_len, rel)

\* Arena::generation_token
generation_token(l) ==
    IF l THEN [status |-> "AlreadyLocked", locked |-> l]
         ELSE [status |-> "ok", locked |-> TRUE]

\* Drop for ArenaToken
drop_token(p, l) == [pos |-> 0, locked |-> FALSE]

InitRegion ==
    /\ release \in BOOLEAN
    /\ arena = Built("region", MemoryMap)
    /\ cap = RegionCap
    /\ pos = 0
    /\ outcome = "ok"
    /\ last = LastOp("init", 0, NullPtr, FALSE, 0, 0)
    /\ blocks = <<>>
    /\ InitNoVecs
    /\ InitNoRegion

\* a name for a new token value
FreshToken == CHOOSE t \in 1..MaxTokens : t \notin tokens

\* arena.generation_token(): a token, or the AlreadyLocked error
GenerationToken ==
    /\ Running
    /\ locked \/ Cardinality(tokens) < MaxTokens
    /\ \E r \in { generation_token(locked) } :
           /\ locked' = r.locked
           /\ outcome' = r.status
           /\ tokens' = IF r.status = "ok" THEN tokens \cup {FreshToken} ELSE tokens
    /\ last' = LastOp("generation_token", 0, NullPtr, FALSE, 0, 0)
    /\ UNCHANGED <<release, cap, arena, pos, blocks, vecVars, seqs>>

\* token.clone(): #[derive(Clone)] copies the reference to the arena
CloneToken(t) ==
    /\ Running
    /\ t \in tokens
    /\ Cardinality(tokens) < MaxTokens
    /\ tokens' = tokens \cup {FreshToken}
    /\ outcome' = "ok"
    /\ last' = LastOp("clone_token", 0, NullPtr, FALSE, t, 0)
    /\ UNCHANGED <<release, cap, arena, pos, blocks, vecVars, locked, seqs>>

\* drop(token); the borrow checker admits it once no sequence borrows the token.
\* The sequences of other tokens stay alive: their generation is over.
DropToken(t) ==
    /\ Running
    /\ t \in tokens
    /\ \A i \in 1..Len(seqs) : seqs[i].token # t
    /\ \E r \in { drop_token(pos, locked) } :
           /\ pos' = r.pos
           /\ locked' = r.locked
    /\ tokens' = tokens \ {t}
    /\ seqs' = [i \in 1..Len(seqs) |-> [seqs[i] EXCEPT !.current = FALSE]]
    /\ outcome' = "ok"
    /\ last' = LastOp("drop_token", 0, NullPtr, FALSE, t, 0)
    /\ UNCHANGED <<release, cap, arena, blocks, vecVars>>

\* SliceVec::with_capacity(&token, count): Slice::new_empty allocates the block
TokenAllocate(t, count) ==
    /\ Running
    /\ t \in tokens
    /\ Len(seqs) < MaxSeqs
    /\ \E r \in { token_new_empty(count, pos, cap, release) } :
           /\ pos' = r.pos
           /\ outcome' = r.status
           /\ last' = LastOp("token_allocate", 0, NullPtr, FALSE, t, count)
           /\ seqs' = IF r.status = "ok"
                        THEN Append(seqs, [token |-> t, ptr |-> r.ret, size |-> ElemSize,
                                           align |-> ElemAlign, count |-> count,
                                           current |-> TRUE])
                        ELSE seqs
    /\ UNCHANGED <<release, cap, arena, blocks, vecVars, locked, tokens>>

\* the allocate_or_extend of a reserve that grows sequence i to count elements
TokenAllocateOrExtend(i, count) ==
    /\ Running
    /\ i \in 1..Len(seqs)
    /\ seqs[i].token \in tokens
    /\ count > seqs[i].count
    /\ \E b \in { seqs[i] } :
       \E r \in { allocate_or_extend(pos, cap, b.ptr, b.count, count,
                                      b.size, b.align, release) } :
           /\ pos' = r.pos
           /\ outcome' = r.status
           /\ last' = LastOp("token_extend", 0, NullPtr, FALSE, i, count)
           /\ seqs' = IF r.status = "ok"
                        THEN [seqs EXCEPT ![i].ptr = r.ret, ![i].count = count]
                        ELSE seqs
    /\ UNCHANGED <<release, cap, arena, blocks, vecVars, locked, tokens>>

\* drop of sequence i
DropSeq(i) ==
    /\ Running
    /\ i \in 1..Len(seqs)
    /\ seqs' = [k \in 1..(Len(seqs) - 1) |-> IF k < i THEN seqs[k] ELSE seqs[k + 1]]
    /\ outcome' = "ok"
    /\ last' = LastOp("drop_seq", 0, NullPtr, FALSE, i, 0)
    /\ UNCHANGED <<release, cap, arena, pos, blocks, vecVars, locked, tokens>>

NextRegion ==
    \/ GenerationToken
    \/ \E t \in 1..MaxTokens : CloneToken(t)
    \/ \E t \in 1..MaxTokens : DropToken(t)
    \/ \E t \in 1..MaxTokens, n \in SeqCounts : TokenAllocate(t, n)
    \/ \E i \in 1..MaxSeqs, n \in SeqCounts : TokenAllocateOrExtend(i, n)
    \/ \E i \in 1..MaxSeqs : DropSeq(i)

SpecRegion == InitRegion /\ [][NextRegion]_vars

----------------------------------------------------------------------------
(* Claims on the region arena *)

\* C4: the cursor is never rewound while a sequence allocated under the
\* current generation is alive, so no two live sequences own overlapping
\* blocks.
C4_NoResetWhileLive ==
    /\ \A i \in 1..Len(seqs) : seqs[i].current
    /\ \A i \in 1..Len(seqs), j \in 1..Len(seqs) :
           i < j => ~Overlap(seqs[i], seqs[j])

\* C5: at most one generation token of the arena is alive at any time.
C5_AtMostOneToken == Cardinality(tokens) <= 1

\* C16: generation_token() called while a token is outstanding returns
\* AlreadyLocked and leaves the lock flag and the cursor unchanged; called
\* while unlocked it returns a token and sets locked to true.
C16_TokenIsExclusive ==
    [][ (last'.op = "generation_token")
            => /\ tokens # {} => /\ outcome' = "AlreadyLocked"
                                 /\ tokens' = tokens
                                 /\ locked' = locked
                                 /\ pos' = pos
               /\ ~locked => /\ outcome' = "ok"
                             /\ tokens' # tokens
                             /\ locked' ]_vars

\* C17: releasing the token sets the position to 0 and locked to false in one
\* step; the generation_token() call after a release succeeds, and the cursor
\* is 0 when the new token is handed out, so that the first allocation under
\* it starts from position 0.
C17_ReleaseStartsAfresh ==
    [][ /\ (last'.op = "drop_token") => (pos' = 0 /\ ~locked')
        /\ (last'.op = "generation_token" /\ ~locked)
               => (outcome' = "ok" /\ tokens' # tokens /\ pos' = 0) ]_vars

----------------------------------------------------------------------------
(* rc.rs, region.rs: Arena::init_capacity *)

\* what a failed acquisition returns: mmap gives MAP_FAILED, (void *) -1, and
\* alloc gives the null pointer
MapFailed == Word - 1

\* create_mapping and create_mapping_alloc: the base of the store, or the value
\* the system reports a failure with
create_mapping(acquired) == IF acquired THEN HeadAddr ELSE MapFailed
create_mapping_alloc(acquired) == IF acquired THEN HeadAddr ELSE NullPtr

\* Arena::init_capacity: the arena is built around whatever the acquisition
\* returned
init_capacity(backing, capacity, acquired) ==
    [status |-> "ok",
     head   |-> IF backing = MemoryMap THEN create_mapping(acquired)
                                       ELSE create_mapping_alloc(acquired),
     pos    |-> 0,
     cap    |-> capacity]

\* no arena has been constructed yet
InitNoArena ==
    /\ release \in BOOLEAN
    /\ arena = NoArena
    /\ cap = 0
    /\ pos = 0
    /\ outcome = "ok"
    /\ last = LastOp("init", 0, NullPtr, FALSE, 0, 0)
    /\ blocks = <<>>
    /\ InitNoVecs
    /\ InitNoRegion

\* Arena::init_capacity(backing, capacity), the one call that constructs the
\* arena; the system grants the store or not
InitCapacity(backing, capacity, acquired) ==
    /\ last.op = "init"
    /\ \E r \in { init_capacity(backing, capacity, acquired) } :
           /\ outcome' = r.status
           /\ cap' = r.cap
           /\ pos' = r.pos
           /\ last' = LastOp("init_capacity", 0, r.head, acquired, backing, capacity)
    /\ arena' = Built("rc", backing)
    /\ UNCHANGED <<regionVars, release, blocks, vecVars>>

NextInit ==
    \E backing \in {MemoryMap, SystemAllocation}, capacity \in 1..CursorCap,
       acquired \in BOOLEAN : InitCapacity(backing, capacity, acquired)

SpecInit == InitNoArena /\ [][NextInit]_vars

\* C18: init returns AllocationFailed, and no arena, whenever the acquisition
\* of the backing store fails, for both backing kinds.
C18_FailedAcquisitionIsReported ==
    [][ (last'.op = "init_capacity" /\ ~last'.fresh)
            => outcome' = "AllocationFailed" ]_vars

----------------------------------------------------------------------------
(* rc.rs, region.rs: Drop for Arena *)

\* destroy_mapping (munmap) and destroy_mapping_alloc (dealloc) on the buffer
destroy_mapping(a) == [a EXCEPT !.unmapped = @ + 1]
destroy_mapping_alloc(a) == [a EXCEPT !.dealloced = @ + 1]

\* a Drop for Arena that unmaps the buffer whatever its backing
drop_arena_unmaps(a) == [destroy_mapping(a) EXCEPT !.live = FALSE]

\* Drop for Arena: match on the backing the arena was built with
drop_arena(a) ==
    [(IF a.backing = MemoryMap THEN destroy_mapping(a)
                               ELSE destroy_mapping_alloc(a)) EXCEPT !.live = FALSE]

\* an arena of either module, of either backing, just constructed
InitTeardown ==
    /\ release \in BOOLEAN
    /\ arena \in { Built(kind, backing) : kind \in {"rc", "region"},
                                          backing \in {MemoryMap, SystemAllocation} }
    /\ cap = VecArenaCap
    /\ pos = 0
    /\ outcome = "ok"
    /\ last = LastOp("init", 0, NullPtr, FALSE, 0, 0)
    /\ blocks = <<>>
    /\ InitNoVecs
    /\ InitNoRegion

\* drop(arena). The rc arena goes whatever handles and sequences are left; its
\* own InnerRef goes with it. The region arena is borrowed by its tokens, and
\* the tokens by their sequences, so it goes after them.
DropArena ==
    /\ ~Halted
    /\ arena.live
    /\ arena.kind = "region" => (tokens = {} /\ seqs = <<>>)
    /\ arena' = drop_arena(arena)
    /\ strong' = IF arena.kind = "rc" THEN strong - 1 ELSE strong
    /\ outcome' = "ok"
    /\ last' = LastOp("drop_arena", pos, NullPtr, FALSE, 0, 0)
    /\ UNCHANGED <<regionVars, release, cap, blocks, pos, handles, vecs, refs, mem, drops,
                   stored, nextId, ops>>

\* the calls that need the arena, the drops that do not, and the teardown
NextTeardown ==
    \/ arena.kind = "rc" /\ arena.live /\ Inner
    \/ arena.kind = "rc" /\ arena.live /\ ArenaClear
    \/ arena.kind = "rc" /\ arena.live /\ \E v \in 1..NumVecs : New(v)
    \/ arena.kind = "rc" /\ arena.live /\ \E v \in 1..NumVecs, c \in Capacities : WithCapacity(v, c)
    \/ arena.kind = "rc" /\ arena.live /\ \E v \in 1..NumVecs : Push(v)
    \/ arena.kind = "rc" /\ DropHandle
    \/ arena.kind = "rc" /\ \E v \in 1..NumVecs : DropVec(v)
    \/ arena.kind = "region" /\ arena.live /\ GenerationToken
    \/ arena.kind = "region" /\ \E t \in 1..MaxTokens : CloneToken(t)
    \/ arena.kind = "region" /\ \E t \in 1..MaxTokens : DropToken(t)
    \/ arena.kind = "region" /\ \E t \in 1..MaxTokens : TokenAllocate(t, 1)
    \/ arena.kind = "region" /\ \E i \in 1..MaxSeqs : DropSeq(i)
    \/ DropArena

SpecTeardown == InitTeardown /\ [][NextTeardown]_vars

\* C29: the backing buffer is released exactly once, at the teardown of the
\* arena, by the primitive of the backing chosen at construction (unmap for
\* MemoryMap, dealloc for SystemAllocation), whatever handles are still live;
\* no clear, reset or drop of a handle, token or sequence releases it.
C29_ReleasedOnceAtTeardown ==
    /\ arena.live => (arena.unmapped = 0 /\ arena.dealloced = 0)
    /\ (~arena.live /\ arena.backing = MemoryMap)
           => (arena.unmapped = 1 /\ arena.dealloced = 0)
    /\ (~arena.live /\ arena.backing = SystemAllocation)
           => (arena.unmapped = 0 /\ arena.dealloced = 1)

\* an rc arena backed by the system allocator was dropped while a handle and a
\* sequence were live, and the sequence was dropped after it
C29_Witness ==
    /\ arena.kind = "rc"
    /\ arena.backing = SystemAllocation
    /\ ~arena.live
    /\ arena.dealloced = 1
    /\ last.op = "drop"
    /\ handles = 1
    /\ strong = 1

\* C39: reserve terminates for every additional and every vector state: the
\* doubling loop reaches a capacity of at least length + additional or the call
\* panics; it never runs forever, also when the sum or the doubled capacity
\* leaves the machine word.
C39_ReserveTerminates ==
    [][ last'.op = "reserve" => outcome' \in {"ok", "panic", "fault"} ]_vars

\* the slots [0, n) of the block at ptr
SlotsOf(ptr, n) == { Slot(ptr, i) : i \in 0..(n - 1) }

----------------------------------------------------------------------------
(* lib.rs: the arena and the SliceVec of the crate root *)

\* InnerRef::allocate of lib.rs: the two checks on the returned pointer are
\* debug assertions
lib_allocate(p, c, size, align, count, rel) ==
    LET low     == p % align
        skipM   == Quantum - low
        skipW   == (skipM + Word) % Word
        skip    == IF skipW = align THEN 0 ELSE skipW
        prodM   == size * count
        prodW   == prodM % Word
        addM    == skip + prodW
        addW    == addM % Word
        sumM    == p + addW
        sumW    == sumM % Word
        ovf     == skipM < 0 \/ prodM >= Word \/ addM >= Word \/ sumM >= Word
        ret     == (HeadAddr + ((p + skip) % Word)) % Word
    IN  IF ~rel /\ ovf
          THEN [status |-> "panic", pos |-> p, ret |-> NullPtr, skip |-> skip]
        ELSE IF ~(sumW <= c)
          THEN [status |-> "panic", pos |-> p, ret |-> NullPtr, skip |-> skip]
        ELSE IF ~rel /\ (~(ret >= HeadAddr) \/ ~(ret < HeadAddr + c))
          THEN [status |-> "panic", pos |-> sumW, ret |-> NullPtr, skip |-> skip]
        ELSE [status |-> "ok", pos |-> sumW, ret |-> ret, skip |-> skip]

\* InnerRef::allocate_or_extend of lib.rs: a null block is allocated afresh
lib_allocate_or_extend(p, c, ptr, old_count, count, size, align, rel) ==
    LET next   == (HeadAddr + p) % Word
        end    == (ptr + old_count * size) % Word
        diffM  == count - old_count
        diffW  == (diffM + Word) % Word
        bytesM == diffW * size
        bytesW == bytesM % Word
        sumM   == p + bytesW
        sumW   == sumM % Word
        ovf    == diffM < 0 \/ bytesM >= Word \/ sumM >= Word
    IN  IF ptr = NullPtr THEN lib_allocate(p, c, size, align, count, rel)
        ELSE IF next = end
          THEN IF ~rel /\ ovf
                 THEN [status |-> "panic", pos |-> p, ret |-> NullPtr, skip |-> 0]
                 ELSE [status |-> "ok", pos |-> sumW, ret |-> ptr, skip |-> 0]
          ELSE lib_allocate(p, c, size, align, count, rel)

\* a reserve that switches to the new block without copying the elements
lib_move_forgets(vec, nc, r, m) ==
    IF r.status # "ok"
      THEN Kept("panic", vec, r.pos, m)
      ELSE [status |-> "ok",
            vec |-> [vec EXCEPT !.ptr = r.ret, !.capacity = nc],
            pos |-> r.pos,
            mem |-> m]

\* lib.rs reserve and push, after allocate_or_extend returned r: copy the
\* elements if the block is not null and moved, then take the new capacity
lib_move(vec, nc, r, m) ==
    IF r.status # "ok"
      THEN Kept("panic", vec, r.pos, m)
      ELSE [status |-> "ok",
            vec |-> [vec EXCEPT !.ptr = IF vec.ptr # NullPtr /\ r.ret # vec.ptr
                                          THEN r.ret ELSE vec.ptr,
                                !.capacity = nc],
            pos |-> r.pos,
            mem |-> IF vec.ptr # NullPtr /\ r.ret # vec.ptr
                      THEN Copy(m, vec.ptr, r.ret, vec.len) ELSE m]

\* lib.rs reserve, once the new capacity nc is computed
lib_grow(vec, nc, p, c, m, rel) ==
    IF nc.status # "ok" THEN Kept(nc.status, vec, p, m)
    ELSE lib_move(vec, nc.capacity,
                  lib_allocate_or_extend(p, c, vec.ptr, vec.capacity, nc.capacity,
                                         ElemSize, ElemAlign, rel),
                  m)

\* SliceVec::reserve(size) of lib.rs: size is the capacity asked for
lib_reserve(vec, size, p, c, m, rel) ==
    IF vec.capacity >= size THEN Kept("ok", vec, p, m)
    ELSE lib_grow(vec,
                  new_capacity(IF vec.capacity > 0 THEN vec.capacity ELSE 4, size, rel),
                  p, c, m, rel)

\* SliceVec::push of lib.rs
lib_push(vec, e, p, c, m, rel) ==
    IF vec.len # vec.capacity THEN push_write(Kept("ok", vec, p, m), e)
    ELSE IF vec.capacity = 0
      THEN push_write(lib_grow(vec, [status |-> "ok", capacity |-> 4], p, c, m, rel), e)
    ELSE IF ~rel /\ vec.capacity * 2 >= Word THEN Kept("panic", vec, p, m)
    ELSE push_write(lib_grow(vec, [status |-> "ok",
                                   capacity |-> (vec.capacity * 2) % Word],
                             p, c, m, rel), e)

\* SliceVec::resize of lib.rs; es are the clones of value and, last, value
lib_resize(vec, len, es, p, c, m, rel) ==
    IF vec.capacity >= len THEN resize_fill(Kept("ok", vec, p, m), vec.len, len, es)
    ELSE resize_fill(lib_reserve(vec, len, p, c, m, rel), vec.len, len, es)

\* SliceVec::new(inner, capacity) of lib.rs
lib_new(capacity, p, c, rel) ==
    IF capacity = 0
      THEN [status |-> "ok", pos |-> p,
            vec |-> [live |-> TRUE, ptr |-> Dangling, len |-> 0, capacity |-> 0]]
      ELSE new_empty(capacity, lib_allocate(p, c, ElemSize, ElemAlign, capacity, rel))

\* the capacities asked of reserve
LibSizes == {2, 6, 9, (Word \div 2) + 1}

\* SliceVec::new(arena.inner(), capacity)
LibNew(v, capacity) ==
    /\ Step
    /\ ~Live(v)
    /\ \E r \in { lib_new(capacity, pos, cap, release) } :
           /\ pos' = r.pos
           /\ outcome' = r.status
           /\ last' = LastOp("lib_new", 0, NullPtr, FALSE, 0, 0)
           /\ vecs' = [vecs EXCEPT ![v] = r.vec]
           /\ strong' = IF r.status = "ok" THEN strong + 1 ELSE strong
    /\ UNCHANGED <<regionVars, release, cap, arena, blocks, handles, refs, mem, drops, stored,
                   nextId>>

\* vec.reserve(size)
LibReserve(v, size) ==
    /\ Step
    /\ Live(v)
    /\ \E r \in { lib_reserve(vecs[v], size, pos, cap, mem, release) } :
           /\ pos' = r.pos
           /\ outcome' \in Access(r.status, r.vec.ptr # vecs[v].ptr
                                               /\ PastBuffer(vecs[v], vecs[v].len))
           /\ last' = LastOp("lib_reserve", 0, NullPtr, FALSE, v, size)
           /\ vecs' = [vecs EXCEPT ![v] = r.vec]
           /\ mem' = r.mem
    /\ UNCHANGED <<regionVars, release, cap, arena, blocks, strong, handles, refs, drops, stored,
                   nextId>>

\* vec.push(elem) with a new element; pushes are bounded by the elements made
LibPush(v) ==
    /\ ~Halted
    /\ nextId <= MaxPushes
    /\ Live(v)
    /\ \E e \in { Elem(nextId, nextId) } :
       \E r \in { lib_push(vecs[v], e, pos, cap, mem, release) } :
           /\ pos' = r.pos
           /\ outcome' \in Access(r.status, PastBuffer(r.vec, r.vec.len))
           /\ last' = LastOp("lib_push", 0, NullPtr, FALSE, 0, 0)
           /\ vecs' = [vecs EXCEPT ![v] = r.vec]
           /\ mem' = r.mem
           /\ IF r.status = "ok"
                THEN /\ stored' = stored \cup {e.id}
                     /\ nextId' = nextId + 1
                ELSE UNCHANGED <<stored, nextId>>
    /\ UNCHANGED <<regionVars, release, cap, arena, blocks, strong, handles, refs, drops, ops>>

\* vec.resize(len, value) with a new value: no destructor runs
LibResize(v, len) ==
    /\ Step
    /\ Live(v)
    /\ \E vec \in { vecs[v] } :
       \E n \in { IF len > vec.len THEN len - vec.len ELSE 0 } :
       \E es \in { ResizeElems(n, nextId) } :
       \E r \in { lib_resize(vec, len, es, pos, cap, mem, release) } :
           /\ nextId + n - 1 <= MaxIds
           /\ pos' = r.pos
           /\ outcome' \in Access(r.status, len > vec.len /\ PastBuffer(r.vec, len))
           /\ last' = LastOp("lib_resize", 0, NullPtr, FALSE, 0, 0)
           /\ vecs' = [vecs EXCEPT ![v] = r.vec]
           /\ mem' = r.mem
           /\ IF r.status = "ok"
                THEN /\ stored' = stored \cup ElemIds(es)
                     /\ nextId' = nextId + n
                ELSE UNCHANGED <<stored, nextId>>
    /\ UNCHANGED <<regionVars, release, cap, arena, blocks, strong, handles, refs, drops>>

\* vec.clear(): self.slice.len = 0, and nothing else
LibClear(v) ==
    /\ Step
    /\ Live(v)
    /\ vecs' = [vecs EXCEPT ![v].len = 0]
    /\ outcome' = "ok"
    /\ last' = LastOp("lib_clear", 0, NullPtr, FALSE, 0, 0)
    /\ UNCHANGED <<regionVars, release, cap, arena, blocks, pos, strong, handles, refs, mem,
                   drops, stored, nextId>>

\* drop(vec): Drop for Slice of lib.rs destructs the elements [0, len)
LibDrop(v) ==
    /\ Step
    /\ Live(v)
    /\ drops' = DropRange(drops, mem, vecs[v].ptr, 0, vecs[v].len)
    /\ vecs' = [vecs EXCEPT ![v] = NoVec]
    /\ strong' = strong - 1
    /\ last' = LastOp("lib_drop", 0, NullPtr, FALSE, 0, 0)
    /\ outcome' \in Access("ok", PastBuffer(vecs[v], vecs[v].len))
    /\ UNCHANGED <<regionVars, release, cap, arena, blocks, pos, handles, refs, mem, stored,
                   nextId>>

\* vectors of the crate root that are created, pushed to and reserved
NextLibReserve ==
    \/ \E v \in 1..NumVecs, c \in {0, 1} : LibNew(v, c)
    \/ \E v \in 1..NumVecs, n \in LibSizes : LibReserve(v, n)
    \/ \E v \in 1..NumVecs : LibPush(v)

SpecLibReserve == InitVec /\ [][NextLibReserve]_vars

\* vectors of the crate root that are created, filled, shortened and dropped
NextLib ==
    \/ \E v \in 1..NumVecs, c \in {0, 4} : LibNew(v, c)
    \/ \E v \in 1..NumVecs : LibPush(v)
    \/ \E v \in 1..NumVecs, n \in 0..MaxArg : LibResize(v, n)
    \/ \E v \in 1..NumVecs : LibClear(v)
    \/ \E v \in 1..NumVecs : LibDrop(v)

SpecLib == InitVec /\ [][NextLib]_vars

\* the capacity after a reserve(size) of lib.rs that returns
LibReservedCapacity(vec, size) ==
    IF vec.capacity >= size THEN vec.capacity
    ELSE FirstDoubling(IF vec.capacity > 0 THEN vec.capacity ELSE 4, size)

\* C31: reserve(n) of the crate-root SliceVec leaves the capacity as it is when
\* capacity >= n, and otherwise sets it to the first of c, 2c, 4c, ... (c the
\* old capacity, or 4 if that is 0) that is >= n; the length and the elements
\* are as before.
C31_LibReserveDoubles ==
    [][ (last'.op = "lib_reserve" /\ outcome' = "ok")
            => /\ vecs'[last'.v].capacity = LibReservedCapacity(vecs[last'.v], last'.arg)
               /\ vecs'[last'.v].capacity >= last'.arg
               /\ vecs'[last'.v].len = vecs[last'.v].len
               /\ Elements(vecs'[last'.v], mem') = Elements(vecs[last'.v], mem) ]_vars

\* at length 5 and capacity 8 a reserve(9) gave capacity 16 (a reserve(6)
\* before it had kept capacity 8)
C31_Witness ==
    /\ last.op = "lib_reserve"
    /\ outcome = "ok"
    /\ \E v \in 1..NumVecs :
           /\ vecs[v].live
           /\ vecs[v].len = 5
           /\ vecs[v].capacity = 16
           /\ Elements(vecs[v], mem) = [i \in 1..5 |-> Elem(i, i)]

\* C32: clear() of the crate-root SliceVec destructs all live elements and
\* sets the length to 0, and resize(len, value) with len below the length
\* destructs the trimmed elements [len, length), each exactly once.
C32_LibShrinkDestructs ==
    [][ \A v \in 1..NumVecs :
            (/\ last'.op \in {"lib_clear", "lib_resize"}
             /\ outcome' = "ok"
             /\ OnlyChanged(v)
             /\ vecs[v].live
             /\ vecs'[v].len < vecs[v].len)
                => \A id \in 1..MaxIds :
                       drops'[id] = drops[id]
                                      + Destructed(vecs[v], vecs'[v].len, vecs[v].len, id) ]_vars


----------------------------------------------------------------------------
(* The copies of the bump allocator in rc.rs, region.rs and lib.rs, run side
   by side with the one of common.rs *)

\* InnerRef::allocate of rc.rs: the two checks on the returned pointer are
\* debug assertions
rc_allocate(p, c, size, align, count, rel) ==
    LET low     == p % align
        skipM   == Quantum - low
        skipW   == (skipM + Word) % Word
        skip    == IF skipW = align THEN 0 ELSE skipW
        prodM   == size * count
        prodW   == prodM % Word
        addM    == skip + prodW
        addW    == addM % Word
        sumM    == p + addW
        sumW    == sumM % Word
        ovf     == skipM < 0 \/ prodM >= Word \/ addM >= Word \/ sumM >= Word
        ret     == (HeadAddr + ((p + skip) % Word)) % Word
    IN  IF ~rel /\ ovf
          THEN [status |-> "panic", pos |-> p, ret |-> NullPtr]
        ELSE IF ~(sumW <= c)
          THEN [status |-> "panic", pos |-> p, ret |-> NullPtr]
        ELSE IF ~rel /\ (~(ret >= HeadAddr) \/ ~(ret < HeadAddr + c))
          THEN [status |-> "panic", pos |-> sumW, ret |-> NullPtr]
        ELSE [status |-> "ok", pos |-> sumW, ret |-> ret]

\* InnerRef::allocate_or_extend of rc.rs: a null block is allocated afresh
rc_allocate_or_extend(p, c, ptr, old_count, count, size, align, rel) ==
    LET next   == (HeadAddr + p) % Word
        end    == (ptr + old_count * size) % Word
        diffM  == count - old_count
        diffW  == (diffM + Word) % Word
        bytesM == diffW * size
        bytesW == bytesM % Word
        sumM   == p + bytesW
        sumW   == sumM % Word
        ovf    == diffM < 0 \/ bytesM >= Word \/ sumM >= Word
    IN  IF ptr = NullPtr THEN rc_allocate(p, c, size, align, count, rel)
        ELSE IF next = end
          THEN IF ~rel /\ ovf
                 THEN [status |-> "panic", pos |-> p, ret |-> NullPtr]
                 ELSE [status |-> "ok", pos |-> sumW, ret |-> ptr]
        ELSE rc_allocate(p, c, size, align, count, rel)

\* the files that hold a copy of the allocator
Copies == { "rc", "region", "lib" }

\* what a caller sees of a call: whether it returned, the cursor it left and
\* the pointer it returned
Seen(r) == [status |-> r.status, pos |-> r.pos, ret |-> r.ret]

\* allocate::<T>(count) of the allocator in the given file
AllocateBy(impl, p, c, size, align, count, rel) ==
    CASE impl = "rc"     -> Seen(rc_allocate(p, c, size, align, count, rel))
      [] impl = "region" -> Seen(allocate(p, c, size, align, count, rel))
      [] impl = "lib"    -> Seen(lib_allocate(p, c, size, align, count, rel))
      [] OTHER           -> Seen(allocate_inner(p, c, size, align, count, rel))

\* allocate_or_extend::<T>(ptr, old_count, count) of the allocator in the given file
ExtendBy(impl, p, c, ptr, old_count, count, size, align, rel) ==
    CASE impl = "rc"     -> Seen(rc_allocate_or_extend(p, c, ptr, old_count, count,
                                                       size, align, rel))
      [] impl = "region" -> Seen(allocate_or_extend(p, c, ptr, old_count, count,
                                                    size, align, rel))
      [] impl = "lib"    -> Seen(lib_allocate_or_extend(p, c, ptr, old_count, count,
                                                        size, align, rel))
      [] OTHER           -> Seen(allocate_or_extend_inner(p, c, ptr, old_count, count,
                                                          size, align, rel))

\* allocate::<T>(count) on an arena whose handle is the one of the given file
AllocateVia(impl, ly, count) ==
    /\ Running
    /\ Len(blocks) < MaxBlocks
    /\ \E r \in { AllocateBy(impl, pos, cap, ly.size, ly.align, count, release) } :
           /\ pos' = r.pos
           /\ outcome' = r.status
           /\ last' = LastOp(impl, pos, r.ret, r.status = "ok", 0, count)
           /\ blocks' = IF r.status = "ok"
                          THEN Append(blocks, [ptr |-> r.ret, size |-> ly.size,
                                               align |-> ly.align, count |-> count])
                          ELSE blocks
    /\ UNCHANGED <<regionVars, release, cap, arena, vecVars>>

\* allocate_or_extend::<T>(ptr, old_count, count) on an issued block, by the
\* handle of the given file
ExtendVia(impl, i, count) ==
    /\ Running
    /\ i \in 1..Len(blocks)
    /\ count > blocks[i].count
    /\ \E b \in { blocks[i] } :
       \E r \in { ExtendBy(impl, pos, cap, b.ptr, b.count, count,
                           b.size, b.align, release) } :
       \E inplace \in { r.status = "ok" /\ r.ret = b.ptr } :
           /\ inplace \/ Len(blocks) < MaxBlocks
           /\ pos' = r.pos
           /\ outcome' = r.status
           /\ last' = LastOp(impl, pos, r.ret, r.status = "ok" /\ ~inplace, i, count)
           /\ blocks' = IF r.status # "ok" THEN blocks
                        ELSE IF inplace THEN [blocks EXCEPT ![i].count = count]
                        ELSE Append(blocks, [ptr |-> r.ret, size |-> b.size,
                                             align |-> b.align, count |-> count])
    /\ UNCHANGED <<regionVars, release, cap, arena, vecVars>>

NextCopies ==
    \/ \E impl \in Copies \cup {"common"}, ly \in Layouts, n \in Counts :
           AllocateVia(impl, ly, n)
    \/ \E impl \in Copies \cup {"common"}, i \in 1..MaxBlocks, n \in Counts \cup {4} :
           ExtendVia(impl, i, n)

SpecCopies == InitCursor /\ [][NextCopies]_vars

\* C38: for every position, capacity, size, alignment and count and every
\* issued block, the allocators of rc.rs, region.rs and lib.rs leave the same
\* position, return the same pointer and end the same way as allocate_inner
\* and allocate_or_extend_inner of common.rs.
C38_CopiesAgree ==
    [][ /\ \A impl \in Copies, ly \in Layouts, count \in Counts :
               AllocateVia(impl, ly, count)
                   => AllocateBy(impl, pos, cap, ly.size, ly.align, count, release)
                        = AllocateBy("common", pos, cap, ly.size, ly.align, count, release)
        /\ \A impl \in Copies, i \in 1..Len(blocks), count \in Counts \cup {4} :
               ExtendVia(impl, i, count)
                   => ExtendBy(impl, pos, cap, blocks[i].ptr, blocks[i].count, count,
                               blocks[i].size, blocks[i].align, release)
                        = ExtendBy("common", pos, cap, blocks[i].ptr, blocks[i].count,
                                   count, blocks[i].size, blocks[i].align, release) ]_vars

====
